---- MODULE Spec2Model ----
(***************************************************************************)
(* State-machine model of the AI session manager (hooks/useAISessions.ts), *)
(* its local-storage adapter and rate limiter (utils/aiSession.ts), the    *)
(* useAI message path and the settings manager (hooks/useSettings.ts).     *)
(*                                                                         *)
(* Modelling conventions                                                   *)
(*  - A JSON value in localStorage is a record [kind, ...]: kind "none" is *)
(*    a missing key (getItem returns null), "json" a parseable blob and    *)
(*    "bad" a blob JSON.parse throws on.                                   *)
(*  - An optional value (T | null) is a sequence of length 0 or 1.         *)
(*  - An in-memory session object carries a reference `meta` into `heap`   *)
(*    for its metadata object: the spread {...session} of the hooks copies *)
(*    the reference, so two session objects may share one metadata object. *)
(*  - Dates other than the timestamp of a default title are left out.      *)
(*  - Costs are counted in integer cost units.                             *)
(***************************************************************************)
EXTENDS Integers, Sequences, FiniteSets, TLC

\* ------------------------------------------------------------- bounds
\* Number of session identifiers generateSessionId hands out in a run.
MaxIds == 2
\* Number of messages a run appends to one session.
MaxMsgs == 1
\* Number of times a run lets Date.now() advance.
MaxTicks == 2
\* Requests a run records for a vendor while another vendor holds more.
MaxOther == 1

\* Characters of the longest API key entered.
MaxKeyLen == 3

\* Lines of the longest streamed body.
MaxLines == 2

\* ------------------------------------------------------------- inputs
Projects == {"default", "other"}
\* Arguments of createSession; "" is the title argument left out.
CreateInputs ==
  { [service |-> "openAI", title |-> ""],
    [service |-> "aider", title |-> "Plan"] }
RenameInputs == {"Renamed"}
MessageInputs ==
  { [role |-> "user", content |-> "q", hasMeta |-> FALSE, tokens |-> 0, cost |-> 0],
    [role |-> "assistant", content |-> "a", hasMeta |-> TRUE, tokens |-> 10, cost |-> 1] }
\* What a fetch to the backend mirror can come to: a 2xx response, a non-2xx
\* response, or a rejected promise (no backend, network down).
Outcomes == {"ok", "http_error", "network_error"}
\* The vendors the rate limiter is asked about.
Services == {"openAI", "aider"}
\* The two callers of useSettings: the application and useAI. Each has its
\* own in-memory settings.
Instances == {"app", "ai"}
\* An API key, "sk".
ApiKeys == {<<115, 107>>}
\* Arguments of updateSettings: the OpenAI block is given a key and enabled,
\* or the theme is set to dark.
ServiceUpdates ==
  { [aiServices |->
       [aider |-> [name |-> "Aider", apiKey |-> <<>>, enabled |-> FALSE],
        claudeCode |-> [name |-> "Claude Code", apiKey |-> <<>>, enabled |-> FALSE],
        openRouter |-> [name |-> "OpenRouter", apiKey |-> <<>>, enabled |-> FALSE],
        openAI |-> [name |-> "OpenAI", apiKey |-> k, enabled |-> TRUE]]] : k \in ApiKeys }
UpdateInputs == { [theme |-> "dark"] } \cup ServiceUpdates
\* Arguments of importSettings: a text that is not JSON, and a document that
\* has the theme only.
ImportInputs ==
  { [kind |-> "bad", doc |-> <<>>],
    [kind |-> "json", doc |-> [theme |-> "light"]] }
\* Documents given to importSettings that lack something: all vendor blocks
\* but one, the `enabled` field of one block, everything but the theme; and a
\* document that lacks nothing.
ImportDocuments ==
  { [kind |-> "json",
     doc |-> [aiServices |->
                [openAI |-> [name |-> "OpenAI", apiKey |-> k, enabled |-> TRUE]]]] :
      k \in ApiKeys }
  \cup
  { [kind |-> "json",
     doc |-> [aiServices |->
                [aider |-> [name |-> "Aider", apiKey |-> <<>>, enabled |-> TRUE],
                 claudeCode |-> [name |-> "Claude Code", apiKey |-> <<>>, enabled |-> FALSE],
                 openRouter |-> [name |-> "OpenRouter", apiKey |-> <<>>, enabled |-> FALSE],
                 openAI |-> [name |-> "OpenAI", apiKey |-> k]]]] : k \in ApiKeys }
  \cup
  { [kind |-> "json", doc |-> [theme |-> "light"]],
    [kind |-> "json",
     doc |-> [theme |-> "dark",
              aiServices |->
                [aider |-> [name |-> "Aider", apiKey |-> <<>>, enabled |-> TRUE],
                 claudeCode |-> [name |-> "Claude Code", apiKey |-> <<>>, enabled |-> FALSE],
                 openRouter |-> [name |-> "OpenRouter", apiKey |-> <<>>, enabled |-> FALSE],
                 openAI |-> [name |-> "OpenAI", apiKey |-> <<>>, enabled |-> FALSE]],
              defaultAIService |-> "aider",
              autoSave |-> FALSE]] }
\* Snapshots another client has posted to the settings resource: one with
\* the theme only, and a whole one.
PostedElsewhere ==
  { [theme |-> "dark"],
    [theme |-> "light",
     aiServices |->
       [aider |-> [name |-> "Aider", apiKey |-> <<>>, enabled |-> TRUE],
        claudeCode |-> [name |-> "Claude Code", apiKey |-> <<>>, enabled |-> FALSE],
        openRouter |-> [name |-> "OpenRouter", apiKey |-> <<>>, enabled |-> FALSE],
        openAI |-> [name |-> "OpenAI", apiKey |-> <<>>, enabled |-> FALSE]],
     defaultAIService |-> "aider",
     autoSave |-> FALSE] }
\* API keys entered in the settings form: strings of 's', 'k' and the euro
\* sign (U+20AC).
KeyChars == {115, 107, 8364}
KeyInputs == UNION { [1..n -> KeyChars] : n \in 1..MaxKeyLen }
\* Themes chosen in the settings form.
ThemeInputs == { [theme |-> t] : t \in {"light", "dark", "system"} }
\* A streamed body is a sequence of pieces of text, and a read hands out
\* some of them: "\n", 'data: ', the JSON text of a chunk up to its content
\* and from it on, the letters of a content, '[DONE]' and a text that is
\* neither.
JsonOpen == "{\"choices\":[{\"delta\":{\"content\":\""
JsonClose == "\"}}]}"
\* Lines of a body: chunks with the contents 'a', 'b' and '', a chunk cut
\* short, the sentinel, a comment and the empty line.
StreamLines ==
  { <<"data: ", JsonOpen, "a", JsonClose>>,
    <<"data: ", JsonOpen, "b", JsonClose>>,
    <<"data: ", JsonOpen, JsonClose>>,
    <<"data: ", JsonOpen, "a">>,
    <<"data: ", "[DONE]">>,
    <<": ping">>,
    <<>> }
RECURSIVE JoinLines(_)
JoinLines(ls) ==
  IF Len(ls) = 0 THEN <<>> ELSE Head(ls) \o <<"\n">> \o JoinLines(Tail(ls))
\* Bodies: up to MaxLines lines, each ended by "\n", the last one or not.
StreamBodies ==
  UNION { { JoinLines(ls) : ls \in [1..n -> StreamLines] } : n \in 0..MaxLines }
  \cup
  UNION { { JoinLines(SubSeq(ls, 1, n - 1)) \o ls[n] : ls \in [1..n -> StreamLines] } :
          n \in 1..MaxLines }
\* Milliseconds by which Date.now() advances between two readings.
TickMs == 30000

VARIABLES
  projectId,       \* the hook's projectId argument
  sessions,        \* useState sessions: sequence of in-memory session objects
  activeSession,   \* useState activeSession: <<>> or <<object>>
  heap,            \* metadata objects, by reference
  isLoading,       \* useState isLoading of useAISessions
  error,           \* useState error of useAISessions: <<>> or <<text>>
  lsSessions,      \* localStorage['vibe-kanban-ai-sessions']
  lsActive,        \* localStorage['vibe-kanban-active-ai-session']
  remote,          \* sessions held by the backend mirror
  pending,         \* loadSessions calls awaiting their fetch
  nextId,          \* next identifier generateSessionId returns
  clock,           \* Date.now()
  last,            \* the last completed operation: name, argument, result
  rateLimit,       \* localStorage['ai_rate_limit_<service>'], by service
  recorded,        \* by service, the times of the calls canMakeRequest allowed
                   \* less than 60 seconds ago
  settings,        \* useState settings, by instance of useSettings
  settingsLoading, \* useState isLoading of useSettings, by instance
  settingsError,   \* useState error of useSettings, by instance
  settingsPending, \* by instance, the loadSettings calls awaiting their fetch
  savePending,     \* by instance, the saveSettings calls awaiting their POST
  lsSettings,      \* localStorage['vibe-kanban-settings']
  remoteSettings,  \* the settings held by the backend mirror
  darkClass,       \* the 'dark' class of the document's root element
  prefersDark,     \* matchMedia('(prefers-color-scheme: dark)').matches
  aiLoading,       \* useState isLoading of useAI
  aiError,         \* useState error of useAI: <<>> or <<text>>
  currentService,  \* useState currentService of useAI
  aiPending,       \* sendMessage and streamMessage calls awaiting the vendor
  vendorCalls,     \* by vendor, the number of requests sent to it
  streamBody,      \* the body of the streamed response, as pieces of text
  streamPos,       \* the number of its pieces that reader.read() has handed out
  buffer,          \* streamMessage's buffer: the line not yet complete
  lines,           \* the lines of the last read that the for loop has yet to see
  yielded,         \* the contents streamMessage has yielded
  reader,          \* the reader of response.body: "none", "held" or "released"
  releases,        \* the number of calls of reader.releaseLock()
  generator        \* where streamMessage stands: "idle", "reading" (awaiting
                   \* reader.read()), "yielded" (suspended at yield), or ended:
                   \* "done" (it returned), "failed" (it threw), "abandoned"
                   \* (the consumer called return())

sessionVars == <<projectId, sessions, activeSession, heap, isLoading, error,
                 lsSessions, lsActive, remote, pending, nextId>>
rateVars == <<rateLimit, recorded>>
settingsVars == <<settings, settingsLoading, settingsError, settingsPending,
                  savePending, lsSettings, remoteSettings, darkClass, prefersDark>>
aiVars == <<aiLoading, aiError, currentService, aiPending, vendorCalls>>
streamVars == <<streamBody, streamPos, buffer, lines, yielded, reader, releases,
                generator>>
\* What the vendor clients and the rate limiter keep outside the hooks.
clientVars == <<rateVars, streamVars>>
vars == <<sessionVars, clock, last, clientVars, settingsVars, aiVars>>

\* ------------------------------------------------------------ helpers
None == <<>>
Some(x) == <<x>>

RECURSIVE Dedup(_)
Dedup(s) ==
  IF Len(s) = 0 THEN <<>>
  ELSE LET d == Dedup(SubSeq(s, 1, Len(s) - 1))
       IN  IF \E i \in 1..Len(d) : d[i] = s[Len(s)] THEN d ELSE Append(d, s[Len(s)])

IndexOf(d, r) == CHOOSE i \in 1..Len(d) : d[i] = r

Ids(list) == {list[i].id : i \in 1..Len(list)}

HasId(list, id) == \E i \in 1..Len(list) : list[i].id = id

\* Mutant: the predicate of find accepts every element.
Find_anyElement(list, id) == IF Len(list) > 0 THEN Some(list[1]) ELSE None

\* Array.prototype.find: the first element with the id, or nothing.
Find(list, id) ==
  IF HasId(list, id)
  THEN Some(list[CHOOSE i \in 1..Len(list) :
                   /\ list[i].id = id
                   /\ \A j \in 1..(i - 1) : list[j].id # id])
  ELSE None

\* ------------------------------------------- session objects and JSON
ZeroMetadata == [messageCount |-> 0, totalTokens |-> 0, totalCost |-> 0]

\* JSON.stringify of an in-memory session: the metadata object is written out.
ToValue(obj, hp) ==
  [id |-> obj.id, title |-> obj.title, projectId |-> obj.projectId,
   service |-> obj.service, messages |-> obj.messages, metadata |-> hp[obj.meta]]

ToValues(list, hp) == [i \in 1..Len(list) |-> ToValue(list[i], hp)]

\* JSON.parse (or response.json) of sessions: every parsed session is a new
\* object with a metadata object of its own, placed after the objects of hp.
FromValue(v, ref) ==
  [id |-> v.id, title |-> v.title, projectId |-> v.projectId,
   service |-> v.service, messages |-> v.messages, meta |-> ref]

Materialize(values, hp) ==
  [objs |-> [i \in 1..Len(values) |-> FromValue(values[i], Len(hp) + i)],
   heap |-> hp \o [i \in 1..Len(values) |-> values[i].metadata]]

\* The metadata statements shared by sessionStorage.addMessage and both state
\* updaters of the hook's addMessage.
UpdateMetadata(m, count, message) ==
  [messageCount |-> count,
   totalTokens |-> m.totalTokens +
                   (IF message.hasMeta /\ message.tokens # 0 THEN message.tokens ELSE 0),
   totalCost |-> m.totalCost +
                 (IF message.hasMeta /\ message.cost # 0 THEN message.cost ELSE 0)]

\* ---------------------------------------------------------- utilities
\* generateSessionId: timestamp and random part, modelled as an unused id.
generateSessionId == nextId

DefaultTitle(now) == [text |-> "AI Session", stamp |-> Some(now)]
GivenTitle(t) == [text |-> t, stamp |-> None]

\* Mutant: the default title is left out.
createAISession_noDefaultTitle(project, service, title, now) ==
  [id |-> generateSessionId,
   title |-> GivenTitle(title),
   projectId |-> project,
   service |-> service,
   messages |-> <<>>,
   metadata |-> ZeroMetadata]

createAISession(project, service, title, now) ==
  [id |-> generateSessionId,
   title |-> IF title # "" THEN GivenTitle(title) ELSE DefaultTitle(now),
   projectId |-> project,
   service |-> service,
   messages |-> <<>>,
   metadata |-> ZeroMetadata]

\* ----------------------------------------------------- sessionStorage
NoBlob == [kind |-> "none", all |-> <<>>]
Blob(all) == [kind |-> "json", all |-> all]

sessionStorage_getSessions(ls, project) ==
  IF ls.kind # "json" THEN <<>>
  ELSE SelectSeq(ls.all, LAMBDA s : s.projectId = project)

sessionStorage_saveSessions(ls, project, values) ==
  IF ls.kind = "bad" THEN ls
  ELSE Blob(SelectSeq(ls.all, LAMBDA s : s.projectId # project) \o values)

sessionStorage_getSession(ls, id) ==
  IF ls.kind # "json" THEN None ELSE Find(ls.all, id)

sessionStorage_updateSession(ls, id, title) ==
  IF ls.kind # "json" \/ ~HasId(ls.all, id) THEN [ok |-> FALSE, ls |-> ls]
  ELSE LET k == CHOOSE i \in 1..Len(ls.all) :
                  /\ ls.all[i].id = id
                  /\ \A j \in 1..(i - 1) : ls.all[j].id # id
       IN  [ok |-> TRUE, ls |-> Blob([ls.all EXCEPT ![k].title = title])]

sessionStorage_deleteSession(ls, id) ==
  IF ls.kind # "json" THEN ls
  ELSE Blob(SelectSeq(ls.all, LAMBDA s : s.id # id))

sessionStorage_addMessage(ls, id, message) ==
  IF ls.kind # "json" \/ ~HasId(ls.all, id) THEN [ok |-> FALSE, ls |-> ls]
  ELSE LET k == CHOOSE i \in 1..Len(ls.all) :
                  /\ ls.all[i].id = id
                  /\ \A j \in 1..(i - 1) : ls.all[j].id # id
           msgs == Append(ls.all[k].messages, message)
       IN  [ok |-> TRUE,
            ls |-> Blob([ls.all EXCEPT
                           ![k].messages = msgs,
                           ![k].metadata = UpdateMetadata(@, Len(msgs), message)])]

NoMap == [kind |-> "none", map |-> <<>>]

sessionStorage_getActiveSession(la, project) ==
  IF la.kind # "json" \/ project \notin DOMAIN la.map THEN None
  ELSE Some(la.map[project])

sessionStorage_setActiveSession(la, project, id) ==
  IF la.kind = "bad" THEN la
  ELSE [kind |-> "json",
        map |-> [p \in DOMAIN la.map \cup {project} |->
                   IF p = project THEN id ELSE la.map[p]]]

sessionStorage_clearActiveSession(la, project) ==
  IF la.kind # "json" THEN la
  ELSE [kind |-> "json", map |-> [p \in DOMAIN la.map \ {project} |-> la.map[p]]]

\* ------------------------------------------------------ backend mirror
\* GET /api/ai/sessions?projectId=p
backend_list(rem, project) == SelectSeq(rem, LAMBDA s : s.projectId = project)
\* POST /api/ai/sessions
backend_create(rem, v) == IF HasId(rem, v.id) THEN rem ELSE Append(rem, v)
\* PUT /api/ai/sessions/:id with {title}
backend_update(rem, id, title) ==
  [i \in 1..Len(rem) |-> IF rem[i].id = id THEN [rem[i] EXCEPT !.title = title] ELSE rem[i]]
\* DELETE /api/ai/sessions/:id
backend_delete(rem, id) == SelectSeq(rem, LAMBDA s : s.id # id)

\* ------------------------------------------------- state normalisation
\* References are renumbered in order of first use (session list, active
\* session, the local sessions a pending loadSessions holds) and metadata
\* objects nothing refers to any more are dropped.
MetaRefs(list) == [i \in 1..Len(list) |-> list[i].meta]

PendingRefs(pd) ==
  IF Len(pd) = 0 THEN <<>> ELSE MetaRefs(pd[1].localSessions)

Renumber(list, d) ==
  [i \in 1..Len(list) |-> [list[i] EXCEPT !.meta = IndexOf(d, @)]]

Commit(ss, act, pd, hp) ==
  LET d == Dedup(MetaRefs(ss) \o MetaRefs(act) \o PendingRefs(pd))
  IN  /\ sessions' = Renumber(ss, d)
      /\ activeSession' = Renumber(act, d)
      /\ pending' = [i \in 1..Len(pd) |->
                       [pd[i] EXCEPT !.localSessions = Renumber(@, d)]]
      /\ heap' = [i \in 1..Len(d) |-> hp[d[i]]]

\* The record of a completed call. `out` is the outcome of the fetch of a
\* loadSessions call ("none" for the other operations); `afterDelete` says
\* that a switchSession call directly follows a deleteSession call for the
\* same id that returned true; `collision` that a loadSessions call fetched a
\* session the local copy of which differed.
Record(op, arg, ret, out, afterDelete, collision) ==
  [op |-> op, arg |-> arg, ret |-> ret, out |-> out,
   afterDelete |-> afterDelete, collision |-> collision]

Done(op, arg, ret) == last' = Record(op, arg, ret, "none", FALSE, FALSE)

\* -------------------------------------------------------- rateLimiter
\* The entry is { requests, lastReset }; lastReset is written by the first
\* call and never read, so the model keeps the requests only.
NoRateData == [kind |-> "none", requests |-> <<>>]
RateData(requests) == [kind |-> "json", requests |-> requests]

RateLimit == 60
WindowMs == 60 * 1000

RecentRequests_keepsBoundary(requests, now) ==
  SelectSeq(requests, LAMBDA timestamp : timestamp >= now - WindowMs)

RecentRequests(requests, now) ==
  SelectSeq(requests, LAMBDA timestamp : timestamp > now - WindowMs)

\* Mutant: a refused call is recorded too.
rateLimiter_canMakeRequest_recordsRefused(stored, now) ==
  IF stored.kind # "json"
  THEN [ret |-> TRUE, stored |-> RateData(<<now>>)]
  ELSE LET requests == RecentRequests(stored.requests, now)
       IN  [ret |-> Len(requests) < RateLimit,
            stored |-> RateData(Append(requests, now))]

\* The value returned and the entry left in storage.
rateLimiter_canMakeRequest(stored, now) ==
  IF stored.kind = "none"
  THEN [ret |-> TRUE, stored |-> RateData(<<now>>)]
  ELSE IF stored.kind = "bad"
  THEN [ret |-> TRUE, stored |-> stored]
  ELSE LET requests == RecentRequests(stored.requests, now)
       IN  IF Len(requests) >= RateLimit
           THEN [ret |-> FALSE, stored |-> stored]
           ELSE [ret |-> TRUE, stored |-> RateData(Append(requests, now))]

rateLimiter_getRemainingRequests(stored, now) ==
  IF stored.kind # "json" THEN RateLimit
  ELSE LET n == RateLimit - Len(RecentRequests(stored.requests, now))
       IN  IF n > 0 THEN n ELSE 0

\* ------------------------------------------------ credential cipher
\* A string is the sequence of its character codes.
Reverse(str) == [i \in 1..Len(str) |-> str[Len(str) + 1 - i]]

\* The base64 alphabet: A-Z, a-z, 0-9, '+', '/'; '=' pads.
B64Char(n) ==
  IF n < 26 THEN 65 + n
  ELSE IF n < 52 THEN 97 + (n - 26)
  ELSE IF n < 62 THEN 48 + (n - 52)
  ELSE IF n = 62 THEN 43 ELSE 47

IsB64Char(c) ==
  \/ c \in 65..90
  \/ c \in 97..122
  \/ c \in 48..57
  \/ c \in {43, 47}

B64Val(c) ==
  IF c \in 65..90 THEN c - 65
  ELSE IF c \in 97..122 THEN c - 97 + 26
  ELSE IF c \in 48..57 THEN c - 48 + 52
  ELSE IF c = 43 THEN 62 ELSE 63

\* btoa throws on a character outside Latin-1.
btoa_ok(str) == \A i \in 1..Len(str) : str[i] <= 255

RECURSIVE btoa(_)
btoa(str) ==
  IF Len(str) = 0 THEN <<>>
  ELSE IF Len(str) = 1
  THEN <<B64Char(str[1] \div 4), B64Char((str[1] % 4) * 16), 61, 61>>
  ELSE IF Len(str) = 2
  THEN <<B64Char(str[1] \div 4),
         B64Char((str[1] % 4) * 16 + str[2] \div 16),
         B64Char((str[2] % 16) * 4), 61>>
  ELSE <<B64Char(str[1] \div 4),
         B64Char((str[1] % 4) * 16 + str[2] \div 16),
         B64Char((str[2] % 16) * 4 + str[3] \div 64),
         B64Char(str[3] % 64)>> \o btoa(SubSeq(str, 4, Len(str)))

\* atob: ASCII whitespace is dropped, one or two '=' are dropped from the end
\* of a text whose length is a multiple of four, and what is left has to be
\* of the alphabet and not of length 1 modulo 4.
atob_strip(str) ==
  LET noSpace == SelectSeq(str, LAMBDA c : c \notin {9, 10, 12, 13, 32})
      n == Len(noSpace)
  IN  IF n > 0 /\ n % 4 = 0 /\ noSpace[n] = 61
      THEN IF noSpace[n - 1] = 61 THEN SubSeq(noSpace, 1, n - 2)
           ELSE SubSeq(noSpace, 1, n - 1)
      ELSE noSpace

atob_ok(str) ==
  LET data == atob_strip(str)
  IN  /\ Len(data) % 4 # 1
      /\ \A i \in 1..Len(data) : IsB64Char(data[i])

RECURSIVE atob_decode(_)
atob_decode(data) ==
  IF Len(data) < 2 THEN <<>>
  ELSE LET a == B64Val(data[1])
           b == B64Val(data[2])
       IN  IF Len(data) = 2 THEN <<a * 4 + b \div 16>>
           ELSE LET c == B64Val(data[3])
                IN  IF Len(data) = 3
                    THEN <<a * 4 + b \div 16, (b % 16) * 16 + c \div 4>>
                    ELSE <<a * 4 + b \div 16, (b % 16) * 16 + c \div 4,
                           (c % 4) * 64 + B64Val(data[4])>>
                         \o atob_decode(SubSeq(data, 5, Len(data)))

atob(str) == atob_decode(atob_strip(str))

\* encryptApiKey throws where btoa throws.
encryptApiKey_ok(key) == Len(key) = 0 \/ btoa_ok(key)

encryptApiKey(key) == IF Len(key) = 0 THEN <<>> ELSE Reverse(btoa(key))

decryptApiKey(encryptedKey) ==
  IF Len(encryptedKey) = 0 THEN <<>>
  ELSE LET reversed == Reverse(encryptedKey)
       IN  IF atob_ok(reversed) THEN atob(reversed) ELSE <<>>

\* ------------------------------------------------------- settings
\* A settings document is a function from the keys it has to their values;
\* autoSave stands for the flat keys that follow defaultAIService.
Vendors == {"aider", "claudeCode", "openRouter", "openAI"}

DefaultBlock(name) == [name |-> name, apiKey |-> <<>>, enabled |-> FALSE]

DEFAULT_SETTINGS ==
  [theme |-> "system",
   aiServices |-> [aider |-> DefaultBlock("Aider"),
                   claudeCode |-> DefaultBlock("Claude Code"),
                   openRouter |-> DefaultBlock("OpenRouter"),
                   openAI |-> DefaultBlock("OpenAI")],
   defaultAIService |-> "openAI",
   autoSave |-> TRUE]

\* { ...a, ...b }
Spread(a, b) ==
  [k \in DOMAIN a \cup DOMAIN b |-> IF k \in DOMAIN b THEN b[k] ELSE a[k]]

\* settings.aiServices.<vendor>.apiKey is read for each of the four vendors:
\* a document without aiServices or without one of the vendors throws.
HasVendorBlocks(doc) ==
  /\ "aiServices" \in DOMAIN doc
  /\ \A v \in Vendors : v \in DOMAIN doc.aiServices

\* A block without apiKey has the key undefined, which both ciphers take to ''.
ApiKeyOf(block) == IF "apiKey" \in DOMAIN block THEN block.apiKey ELSE <<>>

encryptSettings_ok(doc) ==
  /\ HasVendorBlocks(doc)
  /\ \A v \in Vendors : encryptApiKey_ok(ApiKeyOf(doc.aiServices[v]))

encryptSettings(doc) ==
  Spread(doc,
    [aiServices |->
       Spread(doc.aiServices,
         [v \in Vendors |->
            Spread(doc.aiServices[v],
                   [apiKey |-> encryptApiKey(ApiKeyOf(doc.aiServices[v]))])])])

decryptSettings_ok(doc) == HasVendorBlocks(doc)

decryptSettings(doc) ==
  Spread(doc,
    [aiServices |->
       Spread(doc.aiServices,
         [v \in Vendors |->
            Spread(doc.aiServices[v],
                   [apiKey |-> decryptApiKey(ApiKeyOf(doc.aiServices[v]))])])])

NoSettings == [kind |-> "none", doc |-> <<>>]
StoredSettings(doc) == [kind |-> "json", doc |-> doc]

\* The settings backend, a mirror of what is posted to it.
backend_getSettings(rs) == rs.doc
backend_postSettings(rs, doc) == StoredSettings(doc)

\* root.classList.toggle('dark', ...)
applyTheme(theme, systemDark) ==
  IF theme = "system" THEN systemDark ELSE theme = "dark"

\* ------------------------------------------------------------- Init
Init ==
  /\ projectId = "default"
  /\ sessions = <<>>
  /\ activeSession = None
  /\ heap = <<>>
  /\ isLoading = FALSE
  /\ error = None
  /\ lsSessions = NoBlob
  /\ lsActive = NoMap
  /\ remote = <<>>
  /\ pending = <<>>
  /\ nextId = 1
  /\ clock = 0
  /\ last = Record("mount", 0, TRUE, "none", FALSE, FALSE)
  /\ rateLimit = [s \in Services |-> NoRateData]
  /\ recorded = [s \in Services |-> <<>>]
  /\ settings = [i \in Instances |-> DEFAULT_SETTINGS]
  /\ settingsLoading = [i \in Instances |-> TRUE]
  /\ settingsError = [i \in Instances |-> None]
  /\ settingsPending = [i \in Instances |-> <<>>]
  /\ savePending = [i \in Instances |-> <<>>]
  /\ lsSettings = NoSettings
  /\ remoteSettings = NoSettings
  /\ darkClass = FALSE
  /\ prefersDark = FALSE
  /\ aiLoading = FALSE
  /\ aiError = None
  /\ currentService = DEFAULT_SETTINGS.defaultAIService
  /\ aiPending = <<>>
  /\ vendorCalls = [v \in Vendors |-> 0]
  /\ streamBody = <<>>
  /\ streamPos = 0
  /\ buffer = <<>>
  /\ lines = <<>>
  /\ yielded = <<>>
  /\ reader = "none"
  /\ releases = 0
  /\ generator = "idle"

\* ------------------------------------------------------ useAISessions
\* The callbacks read `sessions` and `activeSession` from the render that
\* created them: cSessions and cActive are those captured values.

\* loadSessions up to its await: local sessions and the active session are
\* read from storage and the GET is issued.
loadSessions_read(project) ==
  LET loaded == Materialize(sessionStorage_getSessions(lsSessions, project), heap)
      localSessions == loaded.objs
      activeSessionId == sessionStorage_getActiveSession(lsActive, project)
      activeSessionData ==
        IF Len(activeSessionId) = 0 THEN None
        ELSE sessionStorage_getSession(lsSessions, activeSessionId[1])
      parsed == Materialize(activeSessionData, loaded.heap)
      act == IF Len(activeSessionId) = 0 THEN activeSession ELSE parsed.objs
  IN  /\ Commit(localSessions, act,
                Append(pending, [project |-> project, localSessions |-> localSessions]),
                parsed.heap)
      /\ isLoading' = TRUE
      /\ error' = None
      /\ UNCHANGED <<lsSessions, lsActive, remote, nextId, clock>>

loadSessions_start == loadSessions_read(projectId) /\ UNCHANGED <<projectId, last>>

\* The hook is rendered with another projectId: loadSessions is a new
\* callback, so the effect that depends on it calls it for the new project.
changeProject(project) ==
  /\ project # projectId
  /\ projectId' = project
  /\ loadSessions_read(project)
  /\ Done("changeProject", 0, TRUE)

\* Mutant: on an id collision the local copy is kept.
MergeSessions_localWins(backendSessions, localSessions) ==
  SelectSeq(backendSessions, LAMBDA b : ~HasId(localSessions, b.id)) \o localSessions

\* The merge of loadSessions: backend sessions first, then the local sessions
\* whose id the backend did not return.
MergeSessions(backendSessions, localSessions) ==
  backendSessions \o SelectSeq(localSessions, LAMBDA l : ~HasId(backendSessions, l.id))

\* Some fetched session has a local copy that differs from it.
Collides(backendSessions, localSessions) ==
  \E i \in 1..Len(backendSessions), j \in 1..Len(localSessions) :
    /\ backendSessions[i].id = localSessions[j].id
    /\ backendSessions[i] # localSessions[j]

\* if (response.ok): a rejected fetch leaves no response to ask.
ResponseOk_anyResponse(outcome) == outcome # "network_error"

ResponseOk(outcome) == outcome = "ok"

\* loadSessions from the moment its fetch settles: what it does to the
\* hook's state and to local storage.
loadSessions_settle(outcome) ==
  /\ Len(pending) > 0
  /\ LET pd == Head(pending)
         fetched == Materialize(backend_list(remote, pd.project), heap)
         mergedSessions == MergeSessions(fetched.objs, pd.localSessions)
     IN  IF ResponseOk(outcome)
         THEN /\ Commit(mergedSessions, activeSession, Tail(pending), fetched.heap)
              /\ lsSessions' = sessionStorage_saveSessions(
                                 lsSessions, pd.project,
                                 ToValues(mergedSessions, fetched.heap))
         ELSE /\ Commit(sessions, activeSession, Tail(pending), heap)
              /\ UNCHANGED lsSessions
  /\ isLoading' = FALSE
  /\ UNCHANGED <<projectId, error, lsActive, remote, nextId, clock>>

loadSessions_finish(outcome) ==
  /\ loadSessions_settle(outcome)
  /\ last' = Record("loadSessions", 0, TRUE, outcome, FALSE,
                    outcome = "ok" /\ Collides(backend_list(remote, Head(pending).project),
                                               ToValues(Head(pending).localSessions, heap)))

\* createSession(service, title); `outcome` is what the POST comes to.
createSession(cSessions, service, title, outcome) ==
  /\ nextId <= MaxIds
  /\ LET newSession == createAISession(projectId, service, title, clock)
         ref == Len(heap) + 1
         hp == Append(heap, newSession.metadata)
         obj == FromValue(newSession, ref)
         updatedSessions == Append(cSessions, obj)
     IN  /\ lsSessions' = sessionStorage_saveSessions(
                            lsSessions, projectId, ToValues(updatedSessions, hp))
         /\ lsActive' = sessionStorage_setActiveSession(lsActive, projectId, newSession.id)
         /\ remote' = IF outcome = "ok" THEN backend_create(remote, newSession) ELSE remote
         /\ Commit(updatedSessions, Some(obj), pending, hp)
         /\ Done("createSession", newSession.id, TRUE)
  /\ error' = None
  /\ nextId' = nextId + 1
  /\ UNCHANGED <<projectId, isLoading, clock>>

FollowsDelete(sessionId) ==
  last.op = "deleteSession" /\ last.arg = sessionId /\ last.ret

switchSession(cSessions, sessionId) ==
  LET session == Find(cSessions, sessionId)
  IN  IF Len(session) = 0
      THEN /\ error' = Some("Session not found")
           /\ last' = Record("switchSession", sessionId, FALSE, "none",
                             FollowsDelete(sessionId), FALSE)
           /\ UNCHANGED <<projectId, sessions, activeSession, heap, isLoading,
                          lsSessions, lsActive, remote, pending, nextId, clock>>
      ELSE /\ error' = None
           /\ Commit(sessions, session, pending, heap)
           /\ lsActive' = sessionStorage_setActiveSession(lsActive, projectId, sessionId)
           /\ last' = Record("switchSession", sessionId, TRUE, "none",
                             FollowsDelete(sessionId), FALSE)
           /\ UNCHANGED <<projectId, isLoading, lsSessions, remote, nextId, clock>>

\* Mutant: the filter keeps every session.
RemoveSession_keepsAll(list, sessionId) == list

\* sessions.filter(s => s.id !== sessionId)
RemoveSession(list, sessionId) == SelectSeq(list, LAMBDA s : s.id # sessionId)

\* deleteSession(sessionId); `outcome` is what the DELETE comes to.
deleteSession(cSessions, cActive, sessionId, outcome) ==
  LET updatedSessions == RemoveSession(cSessions, sessionId)
      saved == sessionStorage_saveSessions(lsSessions, projectId,
                                           ToValues(updatedSessions, heap))
      wasActive == Len(cActive) > 0 /\ cActive[1].id = sessionId
  IN  /\ Commit(updatedSessions, IF wasActive THEN None ELSE activeSession, pending, heap)
      /\ lsActive' = IF wasActive
                     THEN sessionStorage_clearActiveSession(lsActive, projectId)
                     ELSE lsActive
      /\ lsSessions' = sessionStorage_deleteSession(saved, sessionId)
      /\ remote' = IF outcome = "ok" THEN backend_delete(remote, sessionId) ELSE remote
      /\ error' = None
      /\ Done("deleteSession", sessionId, TRUE)
      /\ UNCHANGED <<projectId, isLoading, nextId, clock>>

\* updateSessionTitle(sessionId, title); `outcome` is what the PUT comes to.
updateSessionTitle(cActive, sessionId, title, outcome) ==
  LET stored == sessionStorage_updateSession(lsSessions, sessionId, GivenTitle(title))
      retitled == [i \in 1..Len(sessions) |->
                     IF sessions[i].id = sessionId
                     THEN [sessions[i] EXCEPT !.title = GivenTitle(title)]
                     ELSE sessions[i]]
      act == IF Len(cActive) > 0 /\ cActive[1].id = sessionId
             THEN [i \in 1..Len(activeSession) |->
                     [activeSession[i] EXCEPT !.title = GivenTitle(title)]]
             ELSE activeSession
  IN  IF ~stored.ok
      THEN /\ error' = Some("Failed to update session title")
           /\ Done("updateSessionTitle", sessionId, FALSE)
           /\ UNCHANGED <<projectId, sessions, activeSession, heap, isLoading,
                          lsSessions, lsActive, remote, pending, nextId, clock>>
      ELSE /\ lsSessions' = stored.ls
           /\ Commit(retitled, act, pending, heap)
           /\ remote' = IF outcome = "ok"
                        THEN backend_update(remote, sessionId, GivenTitle(title))
                        ELSE remote
           /\ error' = None
           /\ Done("updateSessionTitle", sessionId, TRUE)
           /\ UNCHANGED <<projectId, isLoading, lsActive, nextId, clock>>

\* The state updater addMessage hands to setSessions, run over the list.
RECURSIVE AppendInList(_, _, _, _)
AppendInList(list, hp, sessionId, message) ==
  IF Len(list) = 0 THEN [list |-> <<>>, heap |-> hp]
  ELSE LET session == Head(list)
           hit == session.id = sessionId
           msgs == Append(session.messages, message)
           hp1 == IF hit
                  THEN [hp EXCEPT ![session.meta] = UpdateMetadata(@, Len(msgs), message)]
                  ELSE hp
           updatedSession == IF hit THEN [session EXCEPT !.messages = msgs] ELSE session
           rest == AppendInList(Tail(list), hp1, sessionId, message)
       IN  [list |-> <<updatedSession>> \o rest.list, heap |-> rest.heap]

\* The state updater addMessage hands to setActiveSession.
AppendInActive(prev, hp, message) ==
  IF Len(prev) = 0 THEN [active |-> None, heap |-> hp]
  ELSE LET msgs == Append(prev[1].messages, message)
       IN  [active |-> Some([prev[1] EXCEPT !.messages = msgs]),
            heap |-> [hp EXCEPT ![prev[1].meta] = UpdateMetadata(@, Len(msgs), message)]]

addMessage_returns(sessionId, message) ==
  sessionStorage_addMessage(lsSessions, sessionId, message).ok

\* What addMessage does to the hook's state and to local storage.
addMessage_run(cActive, sessionId, message) ==
  LET stored == sessionStorage_addMessage(lsSessions, sessionId, message)
      inList == AppendInList(sessions, heap, sessionId, message)
      inActive == IF Len(cActive) > 0 /\ cActive[1].id = sessionId
                  THEN AppendInActive(activeSession, inList.heap, message)
                  ELSE [active |-> activeSession, heap |-> inList.heap]
  IN  IF ~stored.ok
      THEN /\ error' = Some("Failed to add message to session")
           /\ UNCHANGED <<projectId, sessions, activeSession, heap, isLoading,
                          lsSessions, lsActive, remote, pending, nextId, clock>>
      ELSE /\ lsSessions' = stored.ls
           /\ Commit(inList.list, inActive.active, pending, inActive.heap)
           /\ error' = None
           /\ UNCHANGED <<projectId, isLoading, lsActive, remote, nextId, clock>>

addMessage(cActive, sessionId, message) ==
  /\ addMessage_run(cActive, sessionId, message)
  /\ Done("addMessage", sessionId, addMessage_returns(sessionId, message))

\* Every copy of the session still has room for one more message.
HasRoom(sessionId) ==
  /\ \A i \in 1..Len(sessions) :
       sessions[i].id = sessionId => Len(sessions[i].messages) < MaxMsgs
  /\ \A i \in 1..Len(activeSession) : Len(activeSession[i].messages) < MaxMsgs
  /\ \A i \in 1..Len(lsSessions.all) :
       lsSessions.all[i].id = sessionId => Len(lsSessions.all[i].messages) < MaxMsgs

\* useAISessions.canMakeRequest: the hook hands the call to the rate limiter.
canMakeRequest(service) ==
  LET r == rateLimiter_canMakeRequest(rateLimit[service], clock)
  IN  /\ rateLimit' = [rateLimit EXCEPT ![service] = r.stored]
      /\ recorded' = [recorded EXCEPT ![service] =
                        IF r.ret THEN Append(@, clock) ELSE @]
      /\ Done("canMakeRequest", 0, r.ret)
      /\ UNCHANGED <<sessionVars, clock, streamVars, settingsVars, aiVars>>

\* useAISessions.getRemainingRequests: it returns the number
\* rateLimiter_getRemainingRequests(rateLimit[service], clock), which the
\* record of the call does not keep.
getRemainingRequests(service) ==
  /\ rateLimiter_getRemainingRequests(rateLimit[service], clock) \in 0..RateLimit
  /\ Done("getRemainingRequests", 0, TRUE)
  /\ UNCHANGED <<sessionVars, clock, clientVars, settingsVars, aiVars>>

\* Date.now() advances; `recorded` forgets what is older than 60 seconds.
Tick ==
  /\ clock < MaxTicks * TickMs
  /\ clock' = clock + TickMs
  /\ recorded' = [s \in Services |->
                    SelectSeq(recorded[s], LAMBDA t : t > clock' - WindowMs)]
  /\ UNCHANGED <<sessionVars, last, rateLimit, streamVars, settingsVars, aiVars>>

\* -------------------------------------------- useAI: current service
ServiceOrder == <<"aider", "claudeCode", "openRouter", "openAI">>

EnabledOf(block) == IF "enabled" \in DOMAIN block THEN block.enabled ELSE FALSE

\* Object.entries(settings.aiServices).filter(enabled && apiKey)
availableServices(st) ==
  SelectSeq(ServiceOrder,
            LAMBDA v : /\ v \in DOMAIN st.aiServices
                       /\ EnabledOf(st.aiServices[v])
                       /\ Len(ApiKeyOf(st.aiServices[v])) > 0)

\* The effect that follows every render of useAI: the default service if it
\* is available, else the first available one, else the service as it is.
SyncService(st, service) ==
  LET available == availableServices(st)
  IN  IF \E i \in 1..Len(available) : available[i] = st.defaultAIService
      THEN st.defaultAIService
      ELSE IF Len(available) > 0 THEN available[1] ELSE service

\* A change of the settings renders useAI anew; nothing else of it changes.
useAI_rerender ==
  /\ currentService' = SyncService(settings'["ai"], currentService)
  /\ UNCHANGED <<aiLoading, aiError, aiPending, vendorCalls>>

\* -------------------------------------------------------- useSettings
\* What loadSettings has read from local storage when it issues its GET.
LocalSettings(ls) ==
  IF ls.kind = "json" /\ decryptSettings_ok(ls.doc)
  THEN Spread(DEFAULT_SETTINGS, decryptSettings(ls.doc))
  ELSE DEFAULT_SETTINGS

\* loadSettings that takes the snapshot out of local storage as it reads it.
loadSettings_start_takesSnapshot(i) ==
  /\ settingsLoading' = [settingsLoading EXCEPT ![i] = TRUE]
  /\ settingsError' = [settingsError EXCEPT ![i] = None]
  /\ settingsPending' = [settingsPending EXCEPT ![i] = Append(@, LocalSettings(lsSettings))]
  /\ lsSettings' = NoSettings
  /\ UNCHANGED <<settings, savePending, remoteSettings, darkClass, prefersDark>>
  /\ UNCHANGED <<sessionVars, clock, last, clientVars>>
  /\ useAI_rerender

\* loadSettings of instance i, up to its await.
loadSettings_start(i) ==
  /\ settingsLoading' = [settingsLoading EXCEPT ![i] = TRUE]
  /\ settingsError' = [settingsError EXCEPT ![i] = None]
  /\ settingsPending' = [settingsPending EXCEPT ![i] = Append(@, LocalSettings(lsSettings))]
  /\ UNCHANGED <<settings, savePending, lsSettings, remoteSettings, darkClass,
                 prefersDark>>
  /\ UNCHANGED <<sessionVars, clock, last, clientVars>>
  /\ useAI_rerender

\* What loadSettings makes of the local settings and the settled GET.
LoadedSettings(local, rs, outcome) ==
  IF ResponseOk(outcome) /\ decryptSettings_ok(backend_getSettings(rs))
  THEN Spread(local, decryptSettings(backend_getSettings(rs)))
  ELSE local

\* loadSettings of instance i from the moment its fetch settles: what it
\* does to the hook's state and to the document.
loadSettings_settle(i, outcome) ==
  /\ Len(settingsPending[i]) > 0
  /\ outcome = "ok" => remoteSettings.kind = "json"
  /\ LET loadedSettings == LoadedSettings(Head(settingsPending[i]), remoteSettings, outcome)
     IN  /\ settings' = [settings EXCEPT ![i] = loadedSettings]
         /\ darkClass' = applyTheme(loadedSettings.theme, prefersDark)
  /\ settingsLoading' = [settingsLoading EXCEPT ![i] = FALSE]
  /\ settingsPending' = [settingsPending EXCEPT ![i] = Tail(@)]
  /\ UNCHANGED <<settingsError, savePending, lsSettings, remoteSettings,
                 prefersDark>>
  /\ UNCHANGED <<sessionVars, clock, clientVars>>
  /\ useAI_rerender

loadSettings_finish(i, outcome) ==
  /\ loadSettings_settle(i, outcome)
  /\ last' = Record("loadSettings", 0, TRUE, outcome, FALSE, FALSE)

\* saveSettings with the POST issued before the write to local storage.
SaveAndSet_postsFirst(i, op, newSettings, stored, outcome) ==
  IF ~encryptSettings_ok(newSettings)
  THEN /\ settingsError' = [settingsError EXCEPT ![i] = Some("save failed")]
       /\ Done(op, 0, FALSE)
       /\ UNCHANGED <<settings, lsSettings, remoteSettings, darkClass>>
  ELSE LET encryptedSettings == encryptSettings(newSettings)
       IN  /\ remoteSettings' = IF outcome = "ok"
                                 THEN backend_postSettings(remoteSettings, encryptedSettings)
                                 ELSE remoteSettings
           /\ IF stored
              THEN /\ lsSettings' = StoredSettings(encryptedSettings)
                   /\ darkClass' = applyTheme(newSettings.theme, prefersDark)
                   /\ settings' = [settings EXCEPT ![i] = newSettings]
                   /\ settingsError' = [settingsError EXCEPT ![i] = None]
                   /\ Done(op, 0, TRUE)
              ELSE /\ settingsError' = [settingsError EXCEPT ![i] = Some("save failed")]
                   /\ Done(op, 0, FALSE)
                   /\ UNCHANGED <<settings, lsSettings, darkClass>>

\* saveSettings(newSettings) and the setSettings that follows it in
\* updateSettings, resetSettings and importSettings; `stored` tells whether
\* localStorage.setItem takes the text, `outcome` is what the POST comes to.
\* A save that throws sets the error and nothing else.
SaveAndSet(i, op, newSettings, stored, outcome) ==
  IF ~encryptSettings_ok(newSettings) \/ ~stored
  THEN /\ settingsError' = [settingsError EXCEPT ![i] = Some("save failed")]
       /\ Done(op, 0, FALSE)
       /\ UNCHANGED <<settings, lsSettings, remoteSettings, darkClass>>
  ELSE LET encryptedSettings == encryptSettings(newSettings)
       IN  /\ lsSettings' = StoredSettings(encryptedSettings)
           /\ remoteSettings' = IF outcome = "ok"
                                 THEN backend_postSettings(remoteSettings, encryptedSettings)
                                 ELSE remoteSettings
           /\ darkClass' = applyTheme(newSettings.theme, prefersDark)
           /\ settings' = [settings EXCEPT ![i] = newSettings]
           /\ settingsError' = [settingsError EXCEPT ![i] = None]
           /\ Done(op, 0, TRUE)

\* updateSettings(updates), called from the render that had cSettings.
updateSettings(i, cSettings, updates, stored, outcome) ==
  /\ SaveAndSet(i, "updateSettings", Spread(cSettings, updates), stored, outcome)
  /\ UNCHANGED <<settingsLoading, settingsPending, savePending, prefersDark>>
  /\ UNCHANGED <<sessionVars, clock, clientVars>>
  /\ useAI_rerender

resetSettings(i, stored, outcome) ==
  /\ SaveAndSet(i, "resetSettings", DEFAULT_SETTINGS, stored, outcome)
  /\ UNCHANGED <<settingsLoading, settingsPending, savePending, prefersDark>>
  /\ UNCHANGED <<sessionVars, clock, clientVars>>
  /\ useAI_rerender

\* importSettings(settingsJson); a text that does not parse has kind "bad".
importSettings(i, settingsJson, stored, outcome) ==
  /\ IF settingsJson.kind # "json"
     THEN /\ settingsError' = [settingsError EXCEPT ![i] = Some("parse failed")]
          /\ Done("importSettings", 0, FALSE)
          /\ UNCHANGED <<settings, lsSettings, remoteSettings, darkClass>>
     ELSE SaveAndSet(i, "importSettings",
                     Spread(DEFAULT_SETTINGS, settingsJson.doc), stored, outcome)
  /\ UNCHANGED <<settingsLoading, settingsPending, savePending, prefersDark>>
  /\ UNCHANGED <<sessionVars, clock, clientVars>>
  /\ useAI_rerender

\* updateSettings(updates) in two steps, for the calls that overlap. The first
\* runs up to the await of the POST in saveSettings: the error is cleared, the
\* new settings are obfuscated and written to local storage.
updateSettings_start(i, cSettings, updates, stored) ==
  /\ LET newSettings == Spread(cSettings, updates)
     IN  IF ~encryptSettings_ok(newSettings) \/ ~stored
         THEN /\ settingsError' = [settingsError EXCEPT ![i] = Some("save failed")]
              /\ Done("updateSettings", 0, FALSE)
              /\ UNCHANGED <<savePending, lsSettings>>
         ELSE /\ lsSettings' = StoredSettings(encryptSettings(newSettings))
              /\ savePending' = [savePending EXCEPT ![i] =
                    Append(@, [newSettings |-> newSettings, updates |-> updates])]
              /\ settingsError' = [settingsError EXCEPT ![i] = None]
              /\ UNCHANGED last
  /\ UNCHANGED <<settings, settingsLoading, settingsPending, remoteSettings,
                 darkClass, prefersDark>>
  /\ UNCHANGED <<sessionVars, clock, clientVars>>
  /\ useAI_rerender

\* The second step: the POST of the n-th waiting call has settled, the theme
\* is applied and setSettings(newSettings) runs.
updateSettings_finish(i, n, outcome) ==
  /\ n \in 1..Len(savePending[i])
  /\ LET call == savePending[i][n]
     IN  /\ remoteSettings' =
              IF outcome = "ok"
              THEN backend_postSettings(remoteSettings, encryptSettings(call.newSettings))
              ELSE remoteSettings
         /\ darkClass' = applyTheme(call.newSettings.theme, prefersDark)
         /\ settings' = [settings EXCEPT ![i] = call.newSettings]
  /\ savePending' = [savePending EXCEPT ![i] =
        SubSeq(@, 1, n - 1) \o SubSeq(@, n + 1, Len(@))]
  /\ Done("updateSettings", 0, TRUE)
  /\ UNCHANGED <<settingsLoading, settingsError, settingsPending, lsSettings,
                 prefersDark>>
  /\ UNCHANGED <<sessionVars, clock, clientVars>>
  /\ useAI_rerender

\* The system's colour scheme changes; the instances whose theme is 'system'
\* listen and apply it.
SystemThemeChange ==
  /\ prefersDark' = ~prefersDark
  /\ darkClass' = IF \E i \in Instances : settings[i].theme = "system"
                  THEN prefersDark' ELSE darkClass
  /\ UNCHANGED <<settings, settingsLoading, settingsError, settingsPending,
                 savePending, lsSettings, remoteSettings>>
  /\ UNCHANGED <<sessionVars, clock, last, clientVars>>
  /\ useAI_rerender

\* -------------------------------------------------------------- useAI
\* client.isConfigured() of the client createAIClient makes for the service.
isConfigured(service, st) ==
  /\ service \in DOMAIN st.aiServices
  /\ EnabledOf(st.aiServices[service])
  /\ service # "aider" => Len(ApiKeyOf(st.aiServices[service])) > 0

\* createAIMessage('user', message); the assistant's message with the usage
\* the response reports; the assistant's message put together from a stream.
UserMessage ==
  [role |-> "user", content |-> "q", hasMeta |-> FALSE, tokens |-> 0, cost |-> 0]
AssistantMessage ==
  [role |-> "assistant", content |-> "a", hasMeta |-> TRUE, tokens |-> 10, cost |-> 1]
StreamedMessage ==
  [role |-> "assistant", content |-> "a", hasMeta |-> FALSE, tokens |-> 0, cost |-> 0]

\* useAI's createSession.
handleCreateSession(cSessions, service, title, outcome) ==
  /\ createSession(cSessions, service, title, outcome)
  /\ aiError' = None
  /\ currentService' = SyncService(settings["ai"], service)
  /\ UNCHANGED <<aiLoading, aiPending, vendorCalls>>

\* sendMessage and streamMessage from the check of the client on: the user's
\* message is appended and the request goes to the vendor of cService.
RequestVendor(kind, cActive, cService, cSettings) ==
  IF ~isConfigured(cService, cSettings)
  THEN /\ aiError' = Some("not properly configured")
       /\ aiLoading' = FALSE
       /\ Done(kind, cActive[1].id, FALSE)
       /\ UNCHANGED <<sessionVars, clock, currentService, aiPending, vendorCalls>>
  ELSE /\ addMessage_run(cActive, cActive[1].id, UserMessage)
       /\ vendorCalls' = [vendorCalls EXCEPT ![cService] = @ + 1]
       /\ aiPending' = Append(aiPending, [kind |-> kind, sessionId |-> cActive[1].id,
                                          service |-> cService])
       /\ aiLoading' = TRUE
       /\ aiError' = None
       /\ UNCHANGED <<last, currentService>>

\* sendMessage(message) up to its await of the vendor, called from the
\* render that had cActive, cService and cSettings.
sendMessage_start(cActive, cService, cSettings) ==
  IF Len(cActive) = 0
  THEN /\ aiError' = Some("No active AI session")
       /\ Done("sendMessage", 0, FALSE)
       /\ UNCHANGED <<sessionVars, clock, aiLoading, currentService, aiPending, vendorCalls>>
  ELSE RequestVendor("sendMessage", cActive, cService, cSettings)

\* streamMessage(message) up to its await of the first chunk; without an
\* active session it throws before it sets anything.
streamMessage_start(cActive, cService, cSettings) ==
  IF Len(cActive) = 0
  THEN /\ Done("streamMessage", 0, FALSE)
       /\ UNCHANGED <<sessionVars, clock, aiVars>>
  ELSE RequestVendor("streamMessage", cActive, cService, cSettings)

\* A call that sends the request once more when it has failed.
VendorSettles_retries(kind, message, outcome) ==
  /\ Len(aiPending) > 0
  /\ Head(aiPending).kind = kind
  /\ LET sessionId == Head(aiPending).sessionId
     IN  IF outcome = "ok"
         THEN /\ addMessage_run(Some([id |-> sessionId]), sessionId, message)
              /\ Done(kind, sessionId, TRUE)
              /\ vendorCalls' = vendorCalls
              /\ UNCHANGED aiError
         ELSE /\ aiError' = Some("request failed")
              /\ Done(kind, sessionId, FALSE)
              /\ vendorCalls' = [vendorCalls EXCEPT ![Head(aiPending).service] = @ + 1]
              /\ UNCHANGED <<sessionVars, clock>>
  /\ aiLoading' = FALSE
  /\ aiPending' = Tail(aiPending)
  /\ UNCHANGED currentService

\* The vendor has answered, or the request has failed: the assistant's
\* message is appended, or the error is set.
VendorSettles(kind, message, outcome) ==
  /\ Len(aiPending) > 0
  /\ Head(aiPending).kind = kind
  /\ LET sessionId == Head(aiPending).sessionId
     IN  IF outcome = "ok"
         THEN /\ addMessage_run(Some([id |-> sessionId]), sessionId, message)
              /\ Done(kind, sessionId, TRUE)
              /\ UNCHANGED aiError
         ELSE /\ aiError' = Some("request failed")
              /\ Done(kind, sessionId, FALSE)
              /\ UNCHANGED <<sessionVars, clock>>
  /\ aiLoading' = FALSE
  /\ aiPending' = Tail(aiPending)
  /\ UNCHANGED <<currentService, vendorCalls>>

sendMessage_finish(outcome) == VendorSettles("sendMessage", AssistantMessage, outcome)

streamMessage_finish(outcome) == VendorSettles("streamMessage", StreamedMessage, outcome)

\* ------------------------------------- OpenAIClient.streamMessage
\* text.split('\n'): the texts between the newlines, one more than there are
\* newlines.
RECURSIVE split(_)
split(text) ==
  IF \A i \in 1..Len(text) : text[i] # "\n" THEN <<text>>
  ELSE LET i == CHOOSE j \in 1..Len(text) :
                  text[j] = "\n" /\ \A k \in 1..(j - 1) : text[k] # "\n"
       IN  <<SubSeq(text, 1, i - 1)>> \o split(SubSeq(text, i + 1, Len(text)))

\* JSON.parse(data) and parsed.choices[0]?.delta?.content: the text parses
\* and has a content if it is a chunk's text with letters for the content;
\* any other text of the pieces throws, in the one or in the other.
JSON_parse(data) ==
  IF /\ Len(data) >= 2
     /\ data[1] = JsonOpen
     /\ data[Len(data)] = JsonClose
     /\ \A i \in 2..(Len(data) - 1) : data[i] \in {"a", "b"}
  THEN [ok |-> TRUE, content |-> SubSeq(data, 2, Len(data) - 1)]
  ELSE [ok |-> FALSE, content |-> <<>>]

\* The for loop over the lines, up to where it leaves the loop body: at a
\* yield, at the return on '[DONE]', or past the last line.
RECURSIVE ForLines(_)
ForLines(ls) ==
  IF Len(ls) = 0 THEN [at |-> "end", content |-> <<>>, rest |-> <<>>]
  ELSE LET line == Head(ls)
       IN  IF Len(line) > 0 /\ line[1] = "data: "
           THEN LET data == Tail(line)
                IN  IF data = <<"[DONE]">>
                    THEN [at |-> "return", content |-> <<>>, rest |-> <<>>]
                    ELSE IF JSON_parse(data).ok /\ Len(JSON_parse(data).content) > 0
                    THEN [at |-> "yield", content |-> JSON_parse(data).content,
                          rest |-> Tail(ls)]
                    ELSE ForLines(Tail(ls))
           ELSE ForLines(Tail(ls))

\* finally { reader.releaseLock() }
releaseLock ==
  /\ reader' = "released"
  /\ releases' = releases + 1

\* streamMessage runs the for loop over ls, from inside the try block.
RunLoop(ls) ==
  LET loop == ForLines(ls)
  IN  /\ lines' = loop.rest
      /\ IF loop.at = "yield"
         THEN /\ yielded' = Append(yielded, loop.content)
              /\ generator' = "yielded"
              /\ UNCHANGED <<reader, releases>>
         ELSE IF loop.at = "return"
         THEN /\ generator' = "done"
              /\ releaseLock
              /\ UNCHANGED yielded
         ELSE /\ generator' = "reading"
              /\ UNCHANGED <<yielded, reader, releases>>

\* streamMessage(request) up to its first reader.read(): makeRequest throws
\* unless the response is ok, and a response without a body has no reader.
streamMessage_open(body, outcome, hasBody) ==
  /\ generator = "idle"
  /\ streamBody' = body
  /\ streamPos' = 0
  /\ buffer' = <<>>
  /\ lines' = <<>>
  /\ yielded' = <<>>
  /\ releases' = 0
  /\ IF ResponseOk(outcome) /\ hasBody
     THEN reader' = "held" /\ generator' = "reading"
     ELSE reader' = "none" /\ generator' = "failed"
  /\ UNCHANGED <<sessionVars, clock, last, rateVars, settingsVars, aiVars>>

\* A read that forgets the line it has not seen the end of.
streamMessage_read_forgetsLine(n) ==
  /\ generator = "reading"
  /\ IF streamPos = Len(streamBody)
     THEN /\ generator' = "done"
          /\ releaseLock
          /\ UNCHANGED <<streamPos, buffer, lines, yielded>>
     ELSE /\ n \in 1..(Len(streamBody) - streamPos)
          /\ streamPos' = streamPos + n
          /\ LET texts == split(SubSeq(streamBody, streamPos + 1, streamPos + n))
             IN  /\ buffer' = texts[Len(texts)]
                 /\ RunLoop(SubSeq(texts, 1, Len(texts) - 1))
  /\ UNCHANGED <<streamBody, sessionVars, clock, last, rateVars, settingsVars, aiVars>>

\* reader.read() hands out the next n pieces, or reports the end of the body.
streamMessage_read(n) ==
  /\ generator = "reading"
  /\ IF streamPos = Len(streamBody)
     THEN /\ generator' = "done"
          /\ releaseLock
          /\ UNCHANGED <<streamPos, buffer, lines, yielded>>
     ELSE /\ n \in 1..(Len(streamBody) - streamPos)
          /\ streamPos' = streamPos + n
          /\ LET texts == split(buffer \o SubSeq(streamBody, streamPos + 1, streamPos + n))
             IN  /\ buffer' = texts[Len(texts)]
                 /\ RunLoop(SubSeq(texts, 1, Len(texts) - 1))
  /\ UNCHANGED <<streamBody, sessionVars, clock, last, rateVars, settingsVars, aiVars>>

\* reader.read() rejects: the connection broke.
streamMessage_readFails ==
  /\ generator = "reading"
  /\ generator' = "failed"
  /\ releaseLock
  /\ UNCHANGED <<streamBody, streamPos, buffer, lines, yielded>>
  /\ UNCHANGED <<sessionVars, clock, last, rateVars, settingsVars, aiVars>>

\* The consumer asks for the next content: the for loop goes on.
streamMessage_next ==
  /\ generator = "yielded"
  /\ RunLoop(lines)
  /\ UNCHANGED <<streamBody, streamPos, buffer>>
  /\ UNCHANGED <<sessionVars, clock, last, rateVars, settingsVars, aiVars>>

\* A generator that ends at its yield without running its finally block.
streamMessage_return_keepsReader ==
  /\ generator = "yielded"
  /\ generator' = "abandoned"
  /\ UNCHANGED <<streamBody, streamPos, buffer, lines, yielded, reader, releases>>
  /\ UNCHANGED <<sessionVars, clock, last, rateVars, settingsVars, aiVars>>

\* The consumer leaves its for await loop: return() ends the generator at
\* its yield.
streamMessage_return ==
  /\ generator = "yielded"
  /\ generator' = "abandoned"
  /\ releaseLock
  /\ UNCHANGED <<streamBody, streamPos, buffer, lines, yielded>>
  /\ UNCHANGED <<sessionVars, clock, last, rateVars, settingsVars, aiVars>>

\* ------------------------------------------- one operation at a time
\* The operations are called from the latest render, and none is started
\* while a loadSessions call awaits its fetch.
Idle == Len(pending) = 0

SessionIds == 1..MaxIds

CallLoadSessions == Idle /\ loadSessions_start /\ UNCHANGED <<clientVars, settingsVars, aiVars>>

FinishLoadSessions ==
  /\ \E o \in Outcomes : loadSessions_finish(o)
  /\ UNCHANGED <<clientVars, settingsVars, aiVars>>

CallCreateSession ==
  /\ Idle
  /\ \E c \in CreateInputs, o \in Outcomes :
       createSession(sessions, c.service, c.title, o)
  /\ UNCHANGED <<clientVars, settingsVars, aiVars>>

CallSwitchSession ==
  /\ Idle
  /\ \E id \in SessionIds : switchSession(sessions, id)
  /\ UNCHANGED <<clientVars, settingsVars, aiVars>>

CallDeleteSession ==
  /\ Idle
  /\ \E id \in SessionIds, o \in Outcomes :
       deleteSession(sessions, activeSession, id, o)
  /\ UNCHANGED <<clientVars, settingsVars, aiVars>>

CallUpdateSessionTitle ==
  /\ Idle
  /\ \E id \in SessionIds, t \in RenameInputs, o \in Outcomes :
       updateSessionTitle(activeSession, id, t, o)
  /\ UNCHANGED <<clientVars, settingsVars, aiVars>>

CallAddMessage ==
  /\ Idle
  /\ \E id \in SessionIds, m \in MessageInputs :
       HasRoom(id) /\ addMessage(activeSession, id, m)
  /\ UNCHANGED <<clientVars, settingsVars, aiVars>>

\* A vendor is asked about while no other vendor holds more than MaxOther
\* requests, or while it holds fewer than MaxOther itself.
CallCanMakeRequest ==
  \E service \in Services :
    /\ \/ \A o \in Services \ {service} : Len(rateLimit[o].requests) <= MaxOther
       \/ Len(rateLimit[service].requests) < MaxOther
    /\ canMakeRequest(service)

Next ==
  \/ CallLoadSessions
  \/ FinishLoadSessions
  \/ CallCreateSession
  \/ CallSwitchSession
  \/ CallDeleteSession
  \/ CallUpdateSessionTitle
  \/ CallAddMessage

Spec == Init /\ [][Next]_vars

\* The session operations that leave the messages alone and keep the list's
\* data as created: load, create, switch, delete.
NextCrud ==
  \/ CallLoadSessions
  \/ FinishLoadSessions
  \/ CallCreateSession
  \/ CallSwitchSession
  \/ CallDeleteSession

SpecCrud == Init /\ [][NextCrud]_vars

\* The operations that talk to the backend mirror: load, create, rename,
\* delete.
NextSync ==
  \/ CallLoadSessions
  \/ FinishLoadSessions
  \/ CallCreateSession
  \/ CallUpdateSessionTitle
  \/ CallDeleteSession

SpecSync == Init /\ [][NextSync]_vars

\* Sessions that are created and then only appended to.
NextMsg ==
  \/ CallCreateSession
  \/ CallAddMessage

SpecMsg == Init /\ [][NextMsg]_vars

\* The settings manager of the application.
SettingsIdle(i) == Len(settingsPending[i]) = 0

CallLoadSettings(i) == SettingsIdle(i) /\ loadSettings_start(i)

FinishLoadSettings(i) == \E o \in Outcomes : loadSettings_finish(i, o)

CallUpdateSettings ==
  /\ SettingsIdle("app")
  /\ \E u \in UpdateInputs, o \in Outcomes :
       updateSettings("app", settings["app"], u, TRUE, o)

CallResetSettings ==
  /\ SettingsIdle("app")
  /\ \E o \in Outcomes : resetSettings("app", TRUE, o)

CallImportSettings ==
  /\ SettingsIdle("app")
  /\ \E j \in ImportInputs, o \in Outcomes : importSettings("app", j, TRUE, o)

NextSettings ==
  \/ CallLoadSettings("app")
  \/ FinishLoadSettings("app")
  \/ CallUpdateSettings
  \/ CallResetSettings
  \/ CallImportSettings
  \/ SystemThemeChange

SpecSettings == Init /\ [][NextSettings]_vars

\* The settings manager and a backend that other clients post to.
SettingsPostedElsewhere ==
  /\ SettingsIdle("app")
  /\ \E doc \in PostedElsewhere :
       remoteSettings' = backend_postSettings(remoteSettings, doc)
  /\ UNCHANGED <<settings, settingsLoading, settingsError, settingsPending,
                 savePending, lsSettings, darkClass, prefersDark>>
  /\ UNCHANGED <<sessionVars, clock, last, clientVars, aiVars>>

NextLayers ==
  \/ CallLoadSettings("app")
  \/ FinishLoadSettings("app")
  \/ CallUpdateSettings
  \/ SettingsPostedElsewhere

SpecLayers == Init /\ [][NextLayers]_vars

\* The settings manager with a local storage that may refuse a write.
TryUpdateSettings ==
  /\ SettingsIdle("app")
  /\ \E u \in UpdateInputs, stored \in BOOLEAN, o \in Outcomes :
       updateSettings("app", settings["app"], u, stored, o)

TryResetSettings ==
  /\ SettingsIdle("app")
  /\ \E stored \in BOOLEAN, o \in Outcomes : resetSettings("app", stored, o)

TryImportSettings ==
  /\ SettingsIdle("app")
  /\ \E j \in ImportInputs, stored \in BOOLEAN, o \in Outcomes :
       importSettings("app", j, stored, o)

NextSave ==
  \/ CallLoadSettings("app")
  \/ FinishLoadSettings("app")
  \/ TryUpdateSettings
  \/ TryResetSettings
  \/ TryImportSettings

SpecSave == Init /\ [][NextSave]_vars

\* The settings manager given API keys: the form saves the OpenAI block with
\* the key entered.
KeyUpdate(key) ==
  [aiServices |->
     Spread(DEFAULT_SETTINGS.aiServices,
            [openAI |-> [name |-> "OpenAI", apiKey |-> key, enabled |-> TRUE]])]

CallSaveApiKey ==
  /\ SettingsIdle("app")
  /\ \E key \in KeyInputs, o \in Outcomes :
       updateSettings("app", settings["app"], KeyUpdate(key), TRUE, o)

NextKeys ==
  \/ CallLoadSettings("app")
  \/ FinishLoadSettings("app")
  \/ CallSaveApiKey

SpecKeys == Init /\ [][NextKeys]_vars

\* The theme: App's useSettings and useAI's each load once, when they mount;
\* the form chooses themes, resets and imports; the system's preference
\* changes.
MountLoadSettings(i) ==
  /\ settingsLoading[i]
  /\ CallLoadSettings(i)

CallChooseTheme ==
  /\ SettingsIdle("app")
  /\ \E u \in ThemeInputs, o \in Outcomes :
       updateSettings("app", settings["app"], u, TRUE, o)

NextTheme ==
  \/ \E i \in Instances : MountLoadSettings(i)
  \/ \E i \in Instances : FinishLoadSettings(i)
  \/ CallChooseTheme
  \/ CallResetSettings
  \/ CallImportSettings
  \/ SystemThemeChange

SpecTheme == Init /\ [][NextTheme]_vars

\* The settings manager given documents to import.
CallImportDocument ==
  /\ SettingsIdle("app")
  /\ \E j \in ImportDocuments, o \in Outcomes : importSettings("app", j, TRUE, o)

NextImport ==
  \/ CallLoadSettings("app")
  \/ FinishLoadSettings("app")
  \/ CallImportDocument

SpecImport == Init /\ [][NextImport]_vars

\* The settings manager with calls that overlap: updateSettings is called
\* while a loadSettings or another updateSettings awaits its fetch.
MaxSaves == 2

BeginUpdateSettings ==
  /\ Len(savePending["app"]) < MaxSaves
  /\ \E u \in UpdateInputs :
       updateSettings_start("app", settings["app"], u, TRUE)

EndUpdateSettings ==
  \E n \in 1..Len(savePending["app"]), o \in Outcomes :
    updateSettings_finish("app", n, o)

NextSettingsOverlap ==
  \/ CallLoadSettings("app")
  \/ FinishLoadSettings("app")
  \/ BeginUpdateSettings
  \/ EndUpdateSettings

SpecSettingsOverlap == Init /\ [][NextSettingsOverlap]_vars

\* The operations that talk to a backend mirror. The session manager and the
\* settings manager share no state: a run works one of them.
SessionsUntouched ==
  /\ nextId = 1
  /\ Len(pending) = 0
  /\ last.op \notin {"loadSessions", "deleteSession", "updateSessionTitle"}

SettingsUntouched ==
  /\ lsSettings = NoSettings
  /\ SettingsIdle("app")
  /\ last.op \notin {"loadSettings", "importSettings"}
  /\ prefersDark = FALSE

NextRemote ==
  \/ SettingsUntouched /\ NextSync
  \/ SessionsUntouched /\ NextSettings

SpecRemote == Init /\ [][NextRemote]_vars

\* The assistant: the application saves settings, useAI loads them, creates
\* sessions and sends messages; the rate limiter is asked now and then.
AIIdle == Idle /\ Len(aiPending) = 0

CallConfigureService ==
  /\ SettingsIdle("app")
  /\ \E u \in ServiceUpdates, o \in Outcomes :
       updateSettings("app", settings["app"], u, TRUE, o)

CallHandleCreateSession ==
  /\ AIIdle
  /\ \E c \in CreateInputs, o \in Outcomes :
       handleCreateSession(sessions, c.service, c.title, o)
  /\ UNCHANGED <<clientVars, settingsVars>>

CallSendMessage ==
  /\ AIIdle
  /\ Len(activeSession) > 0 => HasRoom(activeSession[1].id)
  /\ sendMessage_start(activeSession, currentService, settings["ai"])
  /\ UNCHANGED <<clientVars, settingsVars>>

FinishSendMessage ==
  /\ \E o \in Outcomes : sendMessage_finish(o)
  /\ UNCHANGED <<clientVars, settingsVars>>

CallStreamMessage ==
  /\ AIIdle
  /\ Len(activeSession) > 0 => HasRoom(activeSession[1].id)
  /\ streamMessage_start(activeSession, currentService, settings["ai"])
  /\ UNCHANGED <<clientVars, settingsVars>>

FinishStreamMessage ==
  /\ \E o \in Outcomes : streamMessage_finish(o)
  /\ UNCHANGED <<clientVars, settingsVars>>

AskRateLimiter ==
  \E service \in Services :
    /\ Len(rateLimit[service].requests) < MaxOther
    /\ canMakeRequest(service)

NextAI ==
  \/ CallConfigureService
  \/ CallLoadSettings("ai")
  \/ FinishLoadSettings("ai")
  \/ CallHandleCreateSession
  \/ CallSendMessage
  \/ FinishSendMessage
  \/ CallStreamMessage
  \/ FinishStreamMessage
  \/ AskRateLimiter

SpecAI == Init /\ [][NextAI]_vars

\* A vendor's streamed response, read in any pieces by any consumer.
NextStream ==
  \/ \E body \in StreamBodies, o \in Outcomes, hasBody \in BOOLEAN :
       streamMessage_open(body, o, hasBody)
  \/ \E n \in 0..(Len(streamBody) - streamPos) : streamMessage_read(n)
  \/ streamMessage_readFails
  \/ streamMessage_next
  \/ streamMessage_return

SpecStream == Init /\ [][NextStream]_vars

\* The assistant sending messages: a service is configured, useAI loads the
\* settings, sessions are created, messages are sent; the vendors answer or
\* fail.
\* There is no backend: every fetch to the mirrors is rejected.
NoBackend ==
  /\ remote' = remote
  /\ remoteSettings' = remoteSettings
  /\ last'.out \in {"none", "network_error"}

NextSend ==
  \/ CallConfigureService /\ NoBackend
  \/ CallLoadSettings("ai")
  \/ FinishLoadSettings("ai") /\ NoBackend
  \/ CallHandleCreateSession /\ NoBackend
  \/ CallSendMessage
  \/ FinishSendMessage

SpecSend == Init /\ [][NextSend]_vars

\* The same, with the active session switched while a reply is awaited.
MeanwhileSwitchSession ==
  /\ Idle
  /\ Len(aiPending) > 0
  /\ \E id \in SessionIds : switchSession(sessions, id)
  /\ UNCHANGED <<clientVars, settingsVars, aiVars>>

NextSwitch ==
  \/ CallConfigureService /\ NoBackend
  \/ CallLoadSettings("ai")
  \/ FinishLoadSettings("ai") /\ NoBackend
  \/ CallHandleCreateSession /\ NoBackend
  \/ CallSendMessage
  \/ MeanwhileSwitchSession
  \/ FinishSendMessage

SpecSwitch == Init /\ [][NextSwitch]_vars

\* Operations called, from the latest render, while a loadSessions call
\* awaits its fetch. loadSessions is called on mount, or when the last thing
\* that happened is that a session was created.
LoadSessionsAfresh ==
  /\ last.op \in {"mount", "createSession"}
  /\ CallLoadSessions

MeanwhileCreateSession ==
  /\ ~Idle
  /\ \E c \in CreateInputs, o \in Outcomes :
       createSession(sessions, c.service, c.title, o)
  /\ UNCHANGED <<clientVars, settingsVars, aiVars>>

MeanwhileDeleteSession ==
  /\ ~Idle
  /\ \E id \in SessionIds, o \in Outcomes :
       deleteSession(sessions, activeSession, id, o)
  /\ UNCHANGED <<clientVars, settingsVars, aiVars>>

MeanwhileUpdateSessionTitle ==
  /\ ~Idle
  /\ \E id \in SessionIds, t \in RenameInputs, o \in Outcomes :
       updateSessionTitle(activeSession, id, t, o)
  /\ UNCHANGED <<clientVars, settingsVars, aiVars>>

MeanwhileAddMessage ==
  /\ ~Idle
  /\ \E id \in SessionIds, m \in MessageInputs :
       HasRoom(id) /\ addMessage(activeSession, id, m)
  /\ UNCHANGED <<clientVars, settingsVars, aiVars>>

NextOverlap ==
  \/ LoadSessionsAfresh
  \/ FinishLoadSessions
  \/ CallCreateSession
  \/ MeanwhileCreateSession
  \/ MeanwhileDeleteSession
  \/ MeanwhileUpdateSessionTitle
  \/ MeanwhileAddMessage

SpecOverlap == Init /\ [][NextOverlap]_vars

\* The hook is moved from the default project to another one: the projectId
\* it is rendered with changes, also while a loadSessions call awaits its
\* fetch.
CallChangeProject ==
  /\ projectId = "default"
  /\ \E p \in Projects : changeProject(p)
  /\ UNCHANGED <<clientVars, settingsVars, aiVars>>

\* Local storage holds at most two copies of every session.
StorageBounded == Len(lsSessions'.all) <= 2 * MaxIds

NextProjects ==
  \/ LoadSessionsAfresh
  \/ FinishLoadSessions
  \/ CallChangeProject
  \/ CallCreateSession /\ StorageBounded
  \/ CallSwitchSession
  \/ CallDeleteSession /\ StorageBounded

SpecProjects == Init /\ [][NextProjects]_vars

\* Messages sent in an application that has just mounted: the loadSessions
\* call of the mount may still await its fetch when the first session is
\* created.
MeanwhileHandleCreateSession ==
  /\ ~Idle
  /\ Len(aiPending) = 0
  /\ \E c \in CreateInputs, o \in Outcomes :
       handleCreateSession(sessions, c.service, c.title, o)
  /\ UNCHANGED <<clientVars, settingsVars>>

\* No vendor is sent more than MaxIds requests.
SendsBounded == \A v \in Vendors : vendorCalls'[v] <= MaxIds

NextMounted ==
  \/ LoadSessionsAfresh
  \/ FinishLoadSessions
  \/ CallConfigureService /\ NoBackend
  \/ CallLoadSettings("ai")
  \/ FinishLoadSettings("ai") /\ NoBackend
  \/ MeanwhileHandleCreateSession /\ NoBackend
  \/ CallSendMessage /\ SendsBounded
  \/ FinishSendMessage

SpecMounted == Init /\ [][NextMounted]_vars

\* The rate limiter under a clock that advances.
CallGetRemainingRequests == \E service \in Services : getRemainingRequests(service)

NextRate ==
  \/ CallCanMakeRequest
  \/ Tick

SpecRate == Init /\ [][NextRate]_vars

\* The rate limiter asked both of its questions.
NextRateFrame ==
  \/ CallCanMakeRequest
  \/ CallGetRemainingRequests
  \/ Tick

SpecRateFrame == Init /\ [][NextRateFrame]_vars

\* ------------------------------------------------------------ claims
RECURSIVE SumTokens(_)
SumTokens(msgs) ==
  IF Len(msgs) = 0 THEN 0
  ELSE (IF Head(msgs).hasMeta THEN Head(msgs).tokens ELSE 0) + SumTokens(Tail(msgs))

RECURSIVE SumCost(_)
SumCost(msgs) ==
  IF Len(msgs) = 0 THEN 0
  ELSE (IF Head(msgs).hasMeta THEN Head(msgs).cost ELSE 0) + SumCost(Tail(msgs))

ExpectedMetadata(msgs) ==
  [messageCount |-> Len(msgs), totalTokens |-> SumTokens(msgs), totalCost |-> SumCost(msgs)]

IsPrefix(a, b) == Len(a) <= Len(b) /\ SubSeq(b, 1, Len(a)) = a

\* C1: in every copy of a session (persisted, list entry, active session)
\* messageCount is the number of messages appended and totalTokens and
\* totalCost are the sums of the appended messages' tokens and cost, a message
\* without metadata counting zero.
C1_MetadataEqualsSums ==
  /\ \A i \in 1..Len(lsSessions.all) :
       lsSessions.all[i].metadata = ExpectedMetadata(lsSessions.all[i].messages)
  /\ \A i \in 1..Len(sessions) :
       heap[sessions[i].meta] = ExpectedMetadata(sessions[i].messages)
  /\ \A i \in 1..Len(activeSession) :
       heap[activeSession[i].meta] = ExpectedMetadata(activeSession[i].messages)

\* C2: once an operation has completed, the active session has the title,
\* the messages and the metadata of the list entry with its id.
C2_ActiveEqualsListEntry ==
  Idle =>
    \A a \in 1..Len(activeSession), i \in 1..Len(sessions) :
      sessions[i].id = activeSession[a].id =>
        /\ sessions[i].title = activeSession[a].title
        /\ sessions[i].messages = activeSession[a].messages
        /\ heap[sessions[i].meta] = heap[activeSession[a].meta]

\* C3: a step that is not deleteSession(id) leaves the messages session id
\* had, in local storage and in the in-memory list, as a prefix of the
\* messages it has afterwards.
StoredMessagesKept(id) ==
  \A i \in 1..Len(lsSessions.all), j \in 1..Len(lsSessions'.all) :
    (lsSessions.all[i].id = id /\ lsSessions'.all[j].id = id)
      => IsPrefix(lsSessions.all[i].messages, lsSessions'.all[j].messages)

ListedMessagesKept(id) ==
  \A i \in 1..Len(sessions), j \in 1..Len(sessions') :
    (sessions[i].id = id /\ sessions'[j].id = id)
      => IsPrefix(sessions[i].messages, sessions'[j].messages)

C3_MessagesOnlyGrow ==
  [][\A id \in SessionIds :
       \/ \E o \in Outcomes : deleteSession(sessions, activeSession, id, o)
       \/ StoredMessagesKept(id) /\ ListedMessagesKept(id)]_vars

\* C4: a switchSession(id) that directly follows a deleteSession(id) that
\* returned true returns false, sets the error 'Session not found' and does
\* not make the session active.
C4_SwitchAfterDeleteFails ==
  (Idle /\ last.op = "switchSession" /\ last.afterDelete) =>
    /\ ~last.ret
    /\ error = Some("Session not found")
    /\ \A a \in 1..Len(activeSession) : activeSession[a].id # last.arg

C4_Witness ==
  /\ Idle
  /\ last.op = "switchSession"
  /\ last.afterDelete
  /\ Len(sessions) > 0

\* C7: when the fetch of loadSessions succeeds, the session list is the
\* union by id of the fetched and the local sessions: every fetched session
\* as fetched, every local session whose id was not fetched, nothing else
\* and no id twice; and local storage holds exactly this list for the project.
C7_LoadMergesUnion ==
  [][loadSessions_finish("ok") =>
       LET project == Head(pending).project
           R == backend_list(remote, project)
           L == sessionStorage_getSessions(lsSessions, project)
           M == ToValues(sessions', heap')
       IN  /\ \A i \in 1..Len(R) : \E j \in 1..Len(M) : M[j] = R[i]
           /\ \A i \in 1..Len(L) :
                ~HasId(R, L[i].id) => \E j \in 1..Len(M) : M[j] = L[i]
           /\ \A j \in 1..Len(M) :
                \/ \E i \in 1..Len(R) : R[i] = M[j]
                \/ ~HasId(R, M[j].id) /\ \E i \in 1..Len(L) : L[i] = M[j]
           /\ \A j, k \in 1..Len(M) : j # k => M[j].id # M[k].id
           /\ sessionStorage_getSessions(lsSessions', project) = M]_vars

C7_Witness ==
  /\ Idle
  /\ last.op = "loadSessions"
  /\ last.out = "ok"
  /\ last.collision
  /\ \E i \in 1..Len(sessions) : ~HasId(remote, sessions[i].id)

\* C9: createSession returns a session with an unused id, the hook's
\* project, the given vendor, no messages, zeroed metadata and, when no
\* title is given, a title holding the time of the call; the session is
\* appended to the in-memory list, written to local storage and made the
\* active session in memory and in the persisted pointer of the project.
C9_CreateSession ==
  [][\A c \in CreateInputs, o \in Outcomes :
       createSession(sessions, c.service, c.title, o) =>
         /\ last'.op = "createSession"
         /\ last'.ret
         /\ ~HasId(sessions, last'.arg)
         /\ ~HasId(lsSessions.all, last'.arg)
         /\ Len(activeSession') = 1
         /\ LET a == activeSession'[1]
                v == ToValue(a, heap')
            IN  /\ a.id = last'.arg
                /\ a.projectId = projectId
                /\ a.service = c.service
                /\ a.messages = <<>>
                /\ v.metadata = [messageCount |-> 0, totalTokens |-> 0, totalCost |-> 0]
                /\ c.title = "" => a.title.stamp = Some(clock)
                /\ ToValues(sessions', heap') = Append(ToValues(sessions, heap), v)
                /\ \E i \in 1..Len(lsSessions'.all) : lsSessions'.all[i] = v
                /\ lsActive'.kind = "json"
                /\ projectId \in DOMAIN lsActive'.map
                /\ lsActive'.map[projectId] = a.id]_vars

C9_Witness ==
  /\ Idle
  /\ last.op = "createSession"
  /\ Len(sessions) = 2
  /\ Len(activeSession) = 1
  /\ activeSession[1].title.stamp # None

\* C10: switchSession(id) with an id that is not in the session list returns
\* false, sets an error and leaves the active session and the persisted
\* pointer as they were; with an id of the list it returns true and makes
\* that entry the active session, in memory and in the persisted pointer.
C10_SwitchSession ==
  [][\A id \in SessionIds :
       switchSession(sessions, id) =>
         /\ last'.op = "switchSession"
         /\ IF \E i \in 1..Len(sessions) : sessions[i].id = id
            THEN /\ last'.ret
                 /\ Len(activeSession') = 1
                 /\ activeSession'[1].id = id
                 /\ \E i \in 1..Len(sessions) :
                      ToValue(sessions[i], heap) = ToValue(activeSession'[1], heap')
                 /\ lsActive'.kind = "json"
                 /\ projectId \in DOMAIN lsActive'.map
                 /\ lsActive'.map[projectId] = id
            ELSE /\ ~last'.ret
                 /\ error' = Some("Session not found")
                 /\ ToValues(activeSession', heap') = ToValues(activeSession, heap)
                 /\ lsActive' = lsActive]_vars

C10_Witness ==
  /\ Idle
  /\ last.op = "switchSession"
  /\ ~last.ret
  /\ Len(activeSession) = 1

\* C5: for each vendor, a canMakeRequest call made when 60 calls were allowed
\* less than 60 seconds ago returns false, and a call made when no call was
\* allowed less than 60 seconds ago (none yet, or the window has rolled over)
\* returns true.
C5_RateLimiter ==
  [][\A service \in Services :
       canMakeRequest(service) =>
         /\ Len(recorded[service]) >= RateLimit => last'.ret = FALSE
         /\ Len(recorded[service]) = 0 => last'.ret = TRUE]_vars

\* The 61st call was refused in a window that holds requests of two instants.
C5_Witness ==
  \E service \in Services :
    /\ last.op = "canMakeRequest"
    /\ last.ret = FALSE
    /\ Len(rateLimit[service].requests) = RateLimit
    /\ rateLimit[service].requests[1] < rateLimit[service].requests[RateLimit]

\* C8: when the request to the backend mirror fails with an error status,
\* createSession, deleteSession, updateSessionTitle, loadSessions, loadSettings
\* and the three operations that save settings return what they return and
\* leave the in-memory and local-storage state they leave when there is no
\* backend (the fetch is rejected), and the failure sets no error.
C8_RemoteFailureIsSilent ==
  [][/\ \A c \in CreateInputs :
          last'.op = "createSession" /\ createSession(sessions, c.service, c.title, "http_error") =>
            /\ createSession(sessions, c.service, c.title, "network_error")
            /\ error' = None
     /\ \A id \in SessionIds :
          last'.op = "deleteSession" /\ deleteSession(sessions, activeSession, id, "http_error") =>
            /\ deleteSession(sessions, activeSession, id, "network_error")
            /\ error' = None
     /\ \A id \in SessionIds, t \in RenameInputs :
          last'.op = "updateSessionTitle" /\ updateSessionTitle(activeSession, id, t, "http_error") =>
            /\ updateSessionTitle(activeSession, id, t, "network_error")
            /\ last'.ret => error' = None
     /\ last'.op = "loadSessions" /\ loadSessions_finish("http_error") =>
          /\ loadSessions_settle("network_error")
          /\ last'.ret
          /\ error' = None
     /\ last'.op = "loadSettings" /\ loadSettings_finish("app", "http_error") =>
          /\ loadSettings_settle("app", "network_error")
          /\ last'.ret
          /\ settingsError'["app"] = None
     /\ \A u \in UpdateInputs :
          last'.op = "updateSettings" /\ updateSettings("app", settings["app"], u, TRUE, "http_error") =>
            /\ updateSettings("app", settings["app"], u, TRUE, "network_error")
            /\ last'.ret
            /\ settingsError'["app"] = None
     /\ last'.op = "resetSettings" /\ resetSettings("app", TRUE, "http_error") =>
          /\ resetSettings("app", TRUE, "network_error")
          /\ last'.ret
          /\ settingsError'["app"] = None
     /\ \A j \in ImportInputs :
          last'.op = "importSettings" /\ importSettings("app", j, TRUE, "http_error") =>
            importSettings("app", j, TRUE, "network_error")]_vars

\* A loadSessions call got an error status from a backend that holds sessions
\* the local copies of which differ.
C8_Witness ==
  /\ Idle
  /\ last.op = "loadSessions"
  /\ last.out = "http_error"
  /\ Len(remote) > 0
  /\ remote # ToValues(sessions, heap)

\* C6: useAI.sendMessage and useAI.streamMessage send a request to a vendor
\* only after canMakeRequest has allowed it for that vendor: at no time has a
\* vendor been sent more requests than canMakeRequest has allowed for it.
C6_VendorCallsAllowed ==
  \A service \in Services : vendorCalls[service] <= Len(recorded[service])

\* The sessions of a list of values other than the one with the given id.
OthersOf(values, id) == SelectSeq(values, LAMBDA s : s.id # id)

ActiveValue(act, hp) == IF Len(act) = 0 THEN None ELSE Some(ToValue(act[1], hp))

\* C11: deleteSession(id) removes the session from the in-memory list and from
\* local storage and leaves every other session as it was in both; if the
\* session was the active one the active session becomes null and the
\* project's persisted pointer is cleared, otherwise the active session and
\* the persisted pointer are as they were.
C11_DeleteFrame ==
  [][\A id \in SessionIds :
       (last'.op = "deleteSession"
          /\ \E o \in Outcomes : deleteSession(sessions, activeSession, id, o)) =>
         /\ ToValues(sessions', heap') = OthersOf(ToValues(sessions, heap), id)
         /\ lsSessions'.all = OthersOf(lsSessions.all, id)
         /\ IF Len(activeSession) > 0 /\ activeSession[1].id = id
            THEN /\ activeSession' = None
                 /\ sessionStorage_getActiveSession(lsActive', projectId) = None
            ELSE /\ ActiveValue(activeSession', heap') = ActiveValue(activeSession, heap)
                 /\ lsActive' = lsActive]_vars

C13_OverlapKeepsBoth ==
  [][loadSessions_finish("ok") =>
       LET project == Head(pending).project
           R == backend_list(remote, project)
           NotFetched(values) == SelectSeq(values, LAMBDA v : ~HasId(R, v.id))
           L == NotFetched(sessionStorage_getSessions(lsSessions, project))
       IN  /\ NotFetched(ToValues(sessions', heap')) = L
           /\ NotFetched(sessionStorage_getSessions(lsSessions', project)) = L]_vars


\* C14: settings operations that overlap lose nothing. An updateSettings
\* that starts while another one awaits its POST leaves in local storage the
\* values the waiting one has set for the keys it does not set itself; the
\* setSettings of a call changes the keys of its updates only; and the
\* setSettings of a loadSettings sets what local storage and the response
\* hold when it runs.
C14_OverlapKeepsBothChanges ==
  [][/\ \A u \in UpdateInputs :
          updateSettings_start("app", settings["app"], u, TRUE) =>
            \A n \in 1..Len(savePending["app"]) :
              \A k \in DOMAIN savePending["app"][n].updates \ DOMAIN u :
                LocalSettings(lsSettings')[k] = savePending["app"][n].updates[k]
     /\ \A n \in 1..Len(savePending["app"]), o \in Outcomes :
          updateSettings_finish("app", n, o) =>
            settings'["app"] = Spread(settings["app"], savePending["app"][n].updates)
     /\ \A o \in Outcomes :
          loadSettings_finish("app", o) =>
            settings'["app"] = LoadedSettings(LocalSettings(lsSettings), remoteSettings, o)]_vars


\* The vendor blocks a document should give: what it has of each block, the
\* rest from the defaults.
FilledServices(doc) ==
  [v \in Vendors |->
     IF "aiServices" \in DOMAIN doc /\ v \in DOMAIN doc.aiServices
     THEN Spread(DEFAULT_SETTINGS.aiServices[v], doc.aiServices[v])
     ELSE DEFAULT_SETTINGS.aiServices[v]]

\* C15: the settings in memory always have the four vendor blocks; importing
\* a document succeeds and loading a stored snapshot gives, for every vendor,
\* the fields the document or the snapshot has and the defaults for the rest.
C15_VendorBlocksFilled ==
  [][/\ Vendors \subseteq DOMAIN settings'["app"].aiServices
     /\ \A j \in ImportDocuments, o \in Outcomes :
          (last'.op = "importSettings" /\ importSettings("app", j, TRUE, o)) =>
            /\ last'.ret
            /\ settings'["app"].aiServices = FilledServices(j.doc)
     /\ \A o \in Outcomes \ {"ok"} :
          (lsSettings.kind = "json" /\ loadSettings_finish("app", o)) =>
            settings'["app"].aiServices = FilledServices(decryptSettings(lsSettings.doc))]_vars


\* The value a snapshot has for a key, credentials in clear.
SnapshotValue(doc, k) ==
  IF k = "aiServices" /\ HasVendorBlocks(doc) THEN decryptSettings(doc)[k] ELSE doc[k]

\* C16: loadSettings gives every top-level key the value of the remote
\* snapshot if the fetch succeeded and the snapshot has the key, else the
\* value of the local snapshot if there is one that has the key, else the
\* default.
C16_LayeredLoad ==
  [][\A o \in Outcomes :
       loadSettings_finish("app", o) =>
         \A k \in DOMAIN DEFAULT_SETTINGS :
           settings'["app"][k] =
             IF ResponseOk(o) /\ k \in DOMAIN backend_getSettings(remoteSettings)
             THEN SnapshotValue(backend_getSettings(remoteSettings), k)
             ELSE IF lsSettings.kind = "json" /\ k \in DOMAIN lsSettings.doc
                  THEN SnapshotValue(lsSettings.doc, k)
                  ELSE DEFAULT_SETTINGS[k]]_vars


\* What a save of newSettings does, given whether local storage takes the
\* write and what the POST comes to.
SavedAs(newSettings, stored, outcome) ==
  IF stored
  THEN /\ lsSettings' = StoredSettings(encryptSettings(newSettings))
       /\ outcome # "ok" =>
            /\ last'.ret
            /\ settings'["app"] = newSettings
            /\ settingsError'["app"] = None
            /\ remoteSettings' = remoteSettings
  ELSE /\ ~last'.ret
       /\ settingsError'["app"] # None
       /\ settings' = settings
       /\ lsSettings' = lsSettings
       /\ remoteSettings' = remoteSettings

\* C17: a save writes the obfuscated settings to local storage; a POST that
\* fails leaves the save a success, with the settings in memory updated and
\* no error; a write that local storage refuses makes updateSettings,
\* resetSettings and importSettings fail, with the settings in memory as
\* they were and nothing sent to the backend.
C17_LocalFirstSave ==
  [][\A stored \in BOOLEAN, o \in Outcomes :
       /\ \A u \in UpdateInputs :
            (last'.op = "updateSettings"
               /\ updateSettings("app", settings["app"], u, stored, o)) =>
              SavedAs(Spread(settings["app"], u), stored, o)
       /\ (last'.op = "resetSettings" /\ resetSettings("app", stored, o)) =>
            SavedAs(DEFAULT_SETTINGS, stored, o)
       /\ \A j \in ImportInputs :
            (last'.op = "importSettings" /\ j.kind = "json"
               /\ importSettings("app", j, stored, o)) =>
              SavedAs(Spread(DEFAULT_SETTINGS, j.doc), stored, o)]_vars

\* A save that the backend failed has succeeded, and a later write was
\* refused by local storage: the stored key is obfuscated, the settings in
\* memory are the saved ones and the backend has nothing.
C17_Witness ==
  /\ last.op = "updateSettings"
  /\ ~last.ret
  /\ settingsError["app"] # None
  /\ remoteSettings = NoSettings
  /\ lsSettings.kind = "json"
  /\ settings["app"].aiServices.openAI.apiKey \in ApiKeys
  /\ lsSettings.doc.aiServices.openAI.apiKey = encryptApiKey(settings["app"].aiServices.openAI.apiKey)
  /\ lsSettings.doc.aiServices.openAI.apiKey # settings["app"].aiServices.openAI.apiKey


\* C18: a loadSettings that finds no backend, when the operation completed
\* before it was a loadSettings that found no backend either, leaves the
\* settings in memory as they are; and no step of a loadSettings changes
\* local storage.
C18_LoadIdempotent ==
  [][/\ (last.op = "loadSettings" /\ last.out = "network_error"
           /\ loadSettings_finish("app", "network_error")) =>
          settings'["app"] = settings["app"]
     /\ (loadSettings_start("app") \/ \E o \in Outcomes : loadSettings_finish("app", o)) =>
          lsSettings' = lsSettings]_vars

\* Saved settings have been loaded with no backend, and a second load with
\* nothing in between has read them again and awaits its fetch.
C18_Witness ==
  /\ last.op = "loadSettings"
  /\ last.out = "network_error"
  /\ Len(settingsPending["app"]) = 1
  /\ Head(settingsPending["app"]) = settings["app"]
  /\ settings["app"] # DEFAULT_SETTINGS
  /\ lsSettings.kind = "json"


\* C19: updateSettings saves any non-empty API key, what it stores of the
\* key decrypts to the key, and a loadSettings that finds no backend after
\* the save gives the settings the key that was saved.
C19_KeyRoundTrip ==
  [][/\ \A key \in KeyInputs, o \in Outcomes :
          (last'.op = "updateSettings"
             /\ updateSettings("app", settings["app"], KeyUpdate(key), TRUE, o)) =>
            /\ last'.ret
            /\ lsSettings'.kind = "json"
            /\ decryptApiKey(lsSettings'.doc.aiServices.openAI.apiKey) = key
            /\ settings'["app"].aiServices.openAI.apiKey = key
     /\ (last.op = "updateSettings" /\ last.ret
           /\ loadSettings_finish("app", "network_error")) =>
          settings'["app"].aiServices.openAI.apiKey
            = settings["app"].aiServices.openAI.apiKey]_vars


\* C20: after every step that completes a settings operation or changes the
\* system's preference, the root element has the 'dark' class exactly if the
\* application's theme is 'dark', or is 'system' while the system prefers
\* dark; and a change of the preference while the theme is 'light' or 'dark'
\* leaves the class as it is.
C20_DarkFlagFollowsTheme ==
  [][/\ (\A i \in Instances : Len(settingsPending'[i]) <= Len(settingsPending[i])) =>
          darkClass' = applyTheme(settings'["app"].theme, prefersDark')
     /\ (prefersDark' # prefersDark /\ settings["app"].theme # "system") =>
          darkClass' = darkClass]_vars


\* C21: a sendMessage that reaches the vendor sends it one request; when the
\* request fails or is answered with an error status the call returns null
\* with the error set, and no step other than the start of a call sends a
\* request.
C21_OneRequestNoRetry ==
  [][/\ (Len(aiPending') > Len(aiPending)
           /\ sendMessage_start(activeSession, currentService, settings["ai"])) =>
          vendorCalls' = [vendorCalls EXCEPT ![currentService] = @ + 1]
     /\ \A o \in Outcomes \ {"ok"} :
          (last'.op = "sendMessage" /\ sendMessage_finish(o)) =>
            /\ ~last'.ret
            /\ aiError' # None
            /\ aiPending' = <<>>
     /\ Len(aiPending') <= Len(aiPending) => vendorCalls' = vendorCalls]_vars

\* A sendMessage whose one request has failed has returned null.
C21_Witness ==
  /\ last.op = "sendMessage"
  /\ ~last.ret
  /\ aiError = Some("request failed")
  /\ aiPending = <<>>
  /\ vendorCalls["openAI"] = 1
  /\ \A v \in Vendors \ {"openAI"} : vendorCalls[v] = 0


\* The contents of a whole body: of its lines that a newline ends, up to the
\* first 'data: [DONE]', those that are 'data: ' and a chunk with a content
\* that is not empty.
RECURSIVE ContentsOf(_)
ContentsOf(ls) ==
  IF Len(ls) = 0 \/ Head(ls) = <<"data: ", "[DONE]">> THEN <<>>
  ELSE LET line == Head(ls)
           holds == /\ Len(line) > 0
                    /\ line[1] = "data: "
                    /\ JSON_parse(Tail(line)).ok
                    /\ JSON_parse(Tail(line)).content # <<>>
       IN  (IF holds THEN <<JSON_parse(Tail(line)).content>> ELSE <<>>)
             \o ContentsOf(Tail(ls))

Deltas(body) == ContentsOf(SubSeq(split(body), 1, Len(split(body)) - 1))

\* C22: whatever the reads, streamMessage yields the contents of the body's
\* complete lines in order, and all of them once it has returned.
C22_DeltasOfBody ==
  /\ IsPrefix(yielded, Deltas(streamBody))
  /\ generator = "done" => yielded = Deltas(streamBody)

\* Of a body of a line cut short and a chunk, the line cut short has been
\* skipped and a read has ended inside the chunk's line, which the buffer
\* keeps.
C22_Witness ==
  /\ generator = "reading"
  /\ Len(Deltas(streamBody)) = 1
  /\ Len(yielded) = 0
  /\ buffer = <<"data: ", JsonOpen>>
  /\ \E i \in 1..(streamPos - 1) : streamBody[i] = "a" /\ streamBody[i + 1] = "\n"


\* C23: while streamMessage reads or is suspended at a yield it holds the
\* reader, which it has not released; once it has ended, by the end of the
\* body, the sentinel, a failed read or the consumer's return(), the reader
\* it acquired has been released by one call of releaseLock, and a call that
\* failed before it acquired a reader has released none.
C23_ReaderReleasedOnce ==
  /\ generator \in {"reading", "yielded"} => reader = "held" /\ releases = 0
  /\ generator \in {"done", "failed", "abandoned"} =>
       \/ reader = "released" /\ releases = 1
       \/ reader = "none" /\ releases = 0 /\ generator = "failed" /\ streamPos = 0

\* The consumer has left the iteration after the first of two contents,
\* with a part of the body unread.
C23_Witness ==
  /\ generator = "abandoned"
  /\ reader = "released"
  /\ releases = 1
  /\ Len(yielded) = 1
  /\ Len(Deltas(streamBody)) = 2
  /\ streamPos < Len(streamBody)

\* C24: a session's projectId never changes, and createSession,
\* addMessage, updateSessionTitle, deleteSession and loadSessions, run for
\* project A, leave the persisted sessions and the persisted active pointer
\* of every other project unchanged.
ProjectOf(all, id) == {all[i].projectId : i \in {j \in 1..Len(all) : all[j].id = id}}

RanFor(op, arg) ==
  IF op = "loadSessions" THEN {Head(pending).project}
  ELSE IF op = "createSession" THEN {projectId}
  ELSE {projectId} \cup ProjectOf(lsSessions.all, arg) \cup ProjectOf(sessions, arg)

C24_OtherProjectsUntouched ==
  [][/\ \A id \in SessionIds :
          /\ ProjectOf(lsSessions.all, id) # {} =>
                ProjectOf(lsSessions'.all, id) \subseteq ProjectOf(lsSessions.all, id)
          /\ ProjectOf(sessions, id) # {} =>
                ProjectOf(sessions', id) \subseteq ProjectOf(sessions, id)
     /\ last'.op \in {"createSession", "addMessage", "updateSessionTitle",
                      "deleteSession", "loadSessions"} =>
          \A B \in Projects \ RanFor(last'.op, last'.arg) :
            /\ sessionStorage_getSessions(lsSessions', B) =
                 sessionStorage_getSessions(lsSessions, B)
            /\ sessionStorage_getActiveSession(lsActive', B) =
                 sessionStorage_getActiveSession(lsActive, B)]_vars

\* C25: a message handed to addMessage(X, m) is appended to session X only:
\* the messages of every other session, in local storage, in the list and
\* in the active session, are what they were, also when the active session
\* was switched while sendMessage awaited the vendor.
MessagesIn(list, id) ==
  LET hit == SelectSeq(list, LAMBDA x : x.id = id)
  IN  [i \in 1..Len(hit) |-> hit[i].messages]

C25_MessageGoesToItsSession ==
  [][last'.op \in {"sendMessage", "addMessage"} /\ last'.ret =>
       \A Y \in SessionIds \ {last'.arg} :
         /\ MessagesIn(lsSessions'.all, Y) = MessagesIn(lsSessions.all, Y)
         /\ MessagesIn(sessions', Y) = MessagesIn(sessions, Y)
         /\ MessagesIn(activeSession', Y) = MessagesIn(activeSession, Y)]_vars

\* C26: a session whose deleteSession has returned true is, after the next
\* loadSessions, neither in the in-memory list nor in local storage,
\* whatever became of the DELETE sent to the backend.
C26_DeletedStaysDeleted ==
  [][last.op = "deleteSession" /\ last.ret /\ last'.op = "loadSessions" =>
       /\ ~HasId(sessions', last.arg)
       /\ ~HasId(lsSessions'.all, last.arg)]_vars

\* C27: a session createSession has returned stays in the in-memory list
\* and in local storage until deleteSession is called for it, whatever
\* createSession, addMessage and loadSessions do meanwhile.
C27_CreatedSessionStays ==
  [][\A id \in SessionIds :
       (/\ HasId(sessions, id)
        /\ HasId(lsSessions.all, id)
        /\ ~(last'.op = "deleteSession" /\ last'.arg = id)) =>
         /\ HasId(sessions', id)
         /\ HasId(lsSessions'.all, id)]_vars

\* C28: whenever the hook has an active session, a session with its id is
\* in the in-memory list, belongs to the hook's project, and the project's
\* persisted active pointer holds its id.
C28_ActiveIsListedAndPersisted ==
  \A i \in 1..Len(activeSession) :
    /\ \E j \in 1..Len(sessions) :
         /\ sessions[j].id = activeSession[i].id
         /\ sessions[j].projectId = projectId
    /\ sessionStorage_getActiveSession(lsActive, projectId) = Some(activeSession[i].id)

\* C29: the assistant message appended to a session comes from the vendor
\* in the session's service field: the request that sendMessage or
\* streamMessage has sent for the session went to that vendor.
C29_VendorOfSession ==
  [][(/\ last'.op \in {"sendMessage", "streamMessage"}
      /\ last'.ret
      /\ Len(aiPending') < Len(aiPending)) =>
       /\ \A j \in 1..Len(sessions') :
            sessions'[j].id = Head(aiPending).sessionId =>
              sessions'[j].service = Head(aiPending).service
       /\ \A j \in 1..Len(lsSessions'.all) :
            lsSessions'.all[j].id = Head(aiPending).sessionId =>
              lsSessions'.all[j].service = Head(aiPending).service]_vars

\* C30: sendMessage appends the user message before it calls the vendor
\* and the assistant message only after a successful response, so that in
\* every copy of every session an assistant message follows a user message;
\* a failed vendor call leaves the session with the user message as its
\* last; without an active session no vendor is called and nothing is
\* appended; and isLoading is false once the call has returned.
AnswersFollowQuestions(messages) ==
  \A k \in 1..Len(messages) :
    messages[k].role = "assistant" => k > 1 /\ messages[k - 1].role = "user"

EndsWithQuestion(list, id) ==
  \A j \in 1..Len(list) :
    list[j].id = id =>
      /\ Len(list[j].messages) > 0
      /\ list[j].messages[Len(list[j].messages)] = UserMessage

C30_QuestionThenAnswer ==
  [][/\ \A j \in 1..Len(sessions') : AnswersFollowQuestions(sessions'[j].messages)
     /\ \A j \in 1..Len(lsSessions'.all) : AnswersFollowQuestions(lsSessions'.all[j].messages)
     /\ \A j \in 1..Len(activeSession') : AnswersFollowQuestions(activeSession'[j].messages)
     /\ vendorCalls' # vendorCalls =>
          /\ Len(activeSession) > 0
          /\ HasId(sessions', activeSession[1].id)
          /\ HasId(lsSessions'.all, activeSession[1].id)
          /\ EndsWithQuestion(sessions', activeSession[1].id)
          /\ EndsWithQuestion(lsSessions'.all, activeSession[1].id)
          /\ EndsWithQuestion(activeSession', activeSession[1].id)
     /\ (last'.op = "sendMessage" /\ Len(aiPending') < Len(aiPending)) =>
          /\ ~aiLoading'
          /\ ~last'.ret =>
               /\ UNCHANGED <<sessions, lsSessions, activeSession>>
               /\ EndsWithQuestion(sessions', last'.arg)
               /\ EndsWithQuestion(lsSessions'.all, last'.arg)
     /\ (Len(activeSession) = 0 /\ sendMessage_start(activeSession, currentService, settings["ai"])) =>
          /\ UNCHANGED <<sessions, lsSessions, activeSession, vendorCalls>>
          /\ ~aiLoading'
          /\ ~last'.ret]_vars

====
